---- MODULE Spec2Model ----
(***************************************************************************)
(* A model of the shyp deployment orchestrator: the webhook server's       *)
(* per-target deployment queue, its signature check and HTTP handlers, the *)
(* port allocator, the deployment engine (deployApp / deployModule /       *)
(* deployEngine), the deployment history store, the descriptor files and  *)
(* the deploy and sync commands.  Each part has its own specification over *)
(* the shared variables.                                                   *)
(***************************************************************************)
EXTENDS Integers, Sequences, FiniteSets, TLC

VARIABLES
    \* ---- webhook server: queueDeployment (commands/add.ts 116-135)
    deploymentQueue,   \* Map<string, Promise<void>>: target -> promise id, 0 = no entry
    qpc,               \* position of each queueDeployment call
    qname,             \* the name (target identifier) each call was given
    qexisting,         \* the promise each call read at line 121 (0 = none)
    reactions,         \* promise id -> calls that chained .catch() on it, in order
    microtasks,        \* the event loop's microtask queue
    qoutcome,          \* how each call's deployment ended
    qstarted,          \* order in which the deployments were started
    \* ---- deployment history store: recordDeployment (server/index.ts 187-215)
    deployments,       \* the persisted deployments document: target -> {current, history}
    rcallers,          \* the recordDeployment calls that may be in progress at once
    rlimit,            \* number of calls in the run
    rpc,               \* position of each recordDeployment call
    rapp,              \* its appName argument
    rrecord,           \* its record argument
    rstate,            \* its local `state`, as loaded at line 202
    rcount,            \* number of calls made so far
    rseen,             \* number of calls that had returned when each call loaded
    rlog,              \* the calls that returned, in order: <<appName, record, rseen>>
    \* ---- port allocator: allocatePort (server/index.ts 111-185)
    portsFile,         \* the persisted port document (ports.json)
    appPorts,          \* port fixed in each application descriptor, 0 = none
    configsReadable,   \* whether loadAppConfigs() can read the descriptor store
    apc,               \* position of each allocatePort call
    aname,             \* its appName argument
    arange,            \* its range argument
    astate,            \* its local `state`, as loaded at line 138
    aseen,             \* number of calls that had returned when each call loaded
    acount,            \* number of calls made so far
    alog,              \* the calls that returned, in order
    \* ---- deployment engine: deployApp / deployModule / deployEngine (lib/pm2.ts 131-488)
    dpc,               \* position of the deployment attempt
    dkind,             \* "app", "module" or "engine"
    dcfg,              \* the descriptor fields the attempt branches on
    dstep,             \* index of the next step of the try block
    dcalls,            \* collaborator calls made in this attempt, in order
    dclock,            \* Date.now()
    dstart,            \* startTime
    did,               \* deploymentId
    dcommit,           \* the commit captured, "" before
    dbuild,            \* exit code of the build command in this attempt, -1 before
    dthrown,           \* the step that threw inside the try block, "" if none
    derror,            \* errorMessage of the catch block
    dduration,         \* duration, once computed
    dresult,           \* what the call gave its caller
    dbefore,           \* the deployments document when the attempt started
    dattempts,         \* number of attempts made
    dport,             \* config.port of the application descriptor, 0 = not set
    denv,              \* PORT in the env handed to pm2.startProcess, 0 = not set
    \* ---- webhook server: HTTP handlers (commands/add.ts 98-114, 137-287)
    wsecret,           \* the webhook secret the handler was created with
    wstore,            \* the descriptor store: configured applications and engines
    wreq,              \* the request each handler invocation received
    wpc,               \* position of each handler invocation
    wstatus,           \* status of the response sent, 0 = none sent
    wbody,             \* body of the response sent
    wverified,         \* what verifySignature returned for the request
    wloads,            \* the invocations that loaded the descriptor store
    wcall,             \* the queueDeployment call each invocation made, 0 = none
    wtrace,            \* per invocation: its response and its queueDeployment call, in order
    vcall,             \* the last verifySignature call: arguments and return value
    \* ---- command line and descriptor files (commands/deploy.ts, commands/sync.ts,
    \*      server/index.ts 304-374)
    cfiles,            \* the configuration directory: initialized, apps/ and engines/
    cpc,               \* position of the command the process runs
    ccmd,              \* the command and its arguments
    cexit,             \* exit code of the process, -1 while it runs
    cerror,            \* what the command reported before it failed, "" if nothing
    cloaded,           \* the last loadAppConfigs / loadEngineConfigs call and its result
    sapps,             \* sync: the loaded application descriptors, in memory
    stodo,             \* sync: what the current loop has still to visit
    nginxFiles,        \* the proxy configs written and enabled
    resolved           \* the last command / working path resolution and its result

qvars == <<deploymentQueue, qpc, qname, qexisting, reactions, microtasks,
           qoutcome, qstarted>>

hvars == <<deployments, rcallers, rlimit, rpc, rapp, rrecord, rstate, rcount, rseen, rlog>>

pvars == <<portsFile, appPorts, configsReadable, apc, aname, arange, astate,
           aseen, acount, alog>>

dvars == <<dpc, dkind, dcfg, dstep, dcalls, dclock, dstart, did, dcommit, dbuild,
           dthrown, derror, dduration, dresult, dbefore, dattempts, dport, denv>>

wvars == <<wsecret, wstore, wreq, wpc, wstatus, wbody, wverified, wloads, wcall,
           wtrace, vcall>>

cvars == <<cfiles, cpc, ccmd, cexit, cerror, cloaded, sapps, stodo, nginxFiles,
           resolved>>

vars == <<qvars, hvars, pvars, dvars, wvars, cvars>>

\* what the actions of one part leave alone
notQueue == <<hvars, pvars, dvars, wvars, cvars>>
notHistory == <<qvars, pvars, dvars, wvars, cvars>>
notPorts == <<qvars, hvars, dvars, wvars, cvars>>
notDeploy == <<qvars, pvars, wvars, cvars, rcallers, rlimit, rpc, rapp, rrecord, rstate,
               rcount, rseen, rlog>>
notWebhook == <<hvars, pvars, dvars, cvars>>
notDeployNorCli == <<qvars, pvars, wvars, rcallers, rlimit, rpc, rapp, rrecord, rstate,
                     rcount, rseen, rlog>>
notCli == <<qvars, hvars, pvars, dvars, wvars>>

----------------------------------------------------------------------------
(* Bounds *)

\* number of trigger events (queueDeployment calls) in a run
MaxEvents == 3

\* number of recordDeployment calls in a run of sequential calls
MaxRecords == 12

\* number of recordDeployment calls in a run of the webhook server, where
\* deployments of different targets finish concurrently
MaxRaceRecords == 3

\* number of concurrent recordDeployment calls in the webhook server
MaxRecorders == 2

\* number of allocatePort calls in a run, and how many may overlap
MaxAllocs == 3
MaxAllocators == 2

\* each port range holds RangeSpan + 1 ports (99 in PORT_RANGES)
RangeSpan == 1

\* number of deployment attempts in a run, and how far the clock runs
MaxAttempts == 2
MaxClock == 2

\* clock ticks in one second (1000 in the code, where Date.now() is in ms)
TicksPerSecond == 2

----------------------------------------------------------------------------
(* Webhook server: the deployment queue *)

Events == 1..MaxEvents

\* target identifiers: an application name and an "engine/module" name
\* (add.ts 232-234)
Targets == {"api", "wyrt/chat"}

NoPromise == 0

\* a deployment is in flight from the call of fn() (line 127) until the
\* promise fn returned settles
InFlight(e) == qpc[e] = "running"

InFlightFor(name) == {e \in Events : InFlight(e) /\ qname[e] = name}

\* the calls made so far
Called == {e \in Events : qpc[e] # "idle"}

InitQueue ==
    /\ deploymentQueue = [n \in Targets |-> NoPromise]
    /\ qpc = [e \in Events |-> "idle"]
    /\ qname = [e \in Events |-> "api"]
    /\ qexisting = [e \in Events |-> NoPromise]
    /\ reactions = [e \in Events |-> <<>>]
    /\ microtasks = <<>>
    /\ qoutcome = [e \in Events |-> "none"]
    /\ qstarted = <<>>

\* the other parts, at rest
IdleHistory ==
    /\ deployments = <<>>
    /\ rcallers = {}
    /\ rlimit = 0
    /\ rpc = <<>>
    /\ rapp = <<>>
    /\ rrecord = <<>>
    /\ rstate = <<>>
    /\ rcount = 0
    /\ rseen = <<>>
    /\ rlog = <<>>

\* lines 127-131: fn() is called (the deployment starts synchronously, up to
\* its first await), the promise is stored, and the call awaits it
StartDeployment(e, name) ==
    /\ qpc' = [qpc EXCEPT ![e] = "running"]
    /\ deploymentQueue' = [deploymentQueue EXCEPT ![name] = e]
    /\ qstarted' = Append(qstarted, e)

\* queueDeployment without lines 121-124: the deployment starts at once
QueueDeploymentNoWait(e, name) ==
    /\ UNCHANGED notQueue
    /\ microtasks = <<>>
    /\ qpc[e] = "idle"
    /\ \A f \in DOMAIN qpc : f < e => qpc[f] # "idle"
    /\ qname' = [qname EXCEPT ![e] = name]
    /\ qexisting' = [qexisting EXCEPT ![e] = deploymentQueue[name]]
    /\ StartDeployment(e, name)
    /\ UNCHANGED <<reactions, microtasks, qoutcome>>

\* queueDeployment with one slot for all targets: the call waits for whatever
\* deployment the map holds
QueueDeploymentOneSlot(e, name) ==
    /\ UNCHANGED notQueue
    /\ microtasks = <<>>
    /\ qpc[e] = "idle"
    /\ \A f \in DOMAIN qpc : f < e => qpc[f] # "idle"
    /\ qname' = [qname EXCEPT ![e] = name]
    /\ LET held == {deploymentQueue[n] : n \in Targets} \ {NoPromise}
           existing == IF held = {} THEN NoPromise ELSE CHOOSE f \in held : TRUE
       IN
        /\ qexisting' = [qexisting EXCEPT ![e] = existing]
        /\ IF existing # NoPromise
           THEN /\ qpc' = [qpc EXCEPT ![e] = "waiting"]
                /\ reactions' = [reactions EXCEPT ![existing] = Append(@, e)]
                /\ UNCHANGED <<deploymentQueue, qstarted>>
           ELSE /\ StartDeployment(e, name)
                /\ UNCHANGED reactions
    /\ UNCHANGED <<microtasks, qoutcome>>

\* queueDeployment(name, fn), from the call to its first await.  A trigger
\* handler (webhook push or POST /deploy/:name) makes the call as a macrotask,
\* so no microtask is pending.  Calls are numbered in the order they are made.
QueueCall(e, name) ==
    /\ microtasks = <<>>
    /\ qpc[e] = "idle"
    /\ \A f \in DOMAIN qpc : f < e => qpc[f] # "idle"
    /\ qname' = [qname EXCEPT ![e] = name]
    /\ LET existing == deploymentQueue[name] IN
        /\ qexisting' = [qexisting EXCEPT ![e] = existing]
        /\ IF existing # NoPromise
           THEN \* line 123: await existing.catch(() => {})
                /\ qpc' = [qpc EXCEPT ![e] = "waiting"]
                /\ reactions' = [reactions EXCEPT ![existing] = Append(@, e)]
                /\ UNCHANGED <<deploymentQueue, qstarted>>
           ELSE /\ StartDeployment(e, name)
                /\ UNCHANGED reactions
    /\ UNCHANGED <<microtasks, qoutcome>>

\* a call of queueDeployment on its own, the handlers left aside
QueueDeployment(e, name) ==
    /\ UNCHANGED notQueue
    /\ QueueCall(e, name)

\* The deployment of call e ends: deployApp/deployModule returned a result or
\* threw, fn's try/catch (add.ts 237-247) swallowed a throw, and fn's promise
\* is fulfilled.  Its reactions are queued in registration order: the
\* owner's own await (line 131) first, then each waiter's .catch().
DeploymentSettles(e) ==
    /\ UNCHANGED notQueue
    /\ microtasks = <<>>
    /\ qpc[e] = "running"
    /\ \E o \in {"success", "failed", "threw"} :
          qoutcome' = [qoutcome EXCEPT ![e] = o]
    /\ qpc' = [qpc EXCEPT ![e] = "settled"]
    /\ microtasks' = <<[kind |-> "finally", call |-> e]>> \o
          [i \in 1..Len(reactions[e]) |-> [kind |-> "catch", call |-> reactions[e][i]]]
    /\ reactions' = [reactions EXCEPT ![e] = <<>>]
    /\ UNCHANGED <<deploymentQueue, qname, qexisting, qstarted>>

\* lines 132-134: the owner resumes after await promise; finally deletes the
\* map entry for its name, whatever promise is stored there
RunFinally ==
    /\ UNCHANGED notQueue
    /\ microtasks # <<>>
    /\ Head(microtasks).kind = "finally"
    /\ LET e == Head(microtasks).call IN
        /\ qpc' = [qpc EXCEPT ![e] = "done"]
        /\ deploymentQueue' = [deploymentQueue EXCEPT ![qname[e]] = NoPromise]
    /\ microtasks' = Tail(microtasks)
    /\ UNCHANGED <<qname, qexisting, reactions, qoutcome, qstarted>>

\* line 123 as `await existing`, without the .catch(): a waiter whose
\* occupant did not end well is rejected and never starts
RunCatchGivesUp ==
    /\ UNCHANGED notQueue
    /\ microtasks # <<>>
    /\ Head(microtasks).kind = "catch"
    /\ LET e == Head(microtasks).call IN
        IF qoutcome[qexisting[e]] = "success"
        THEN /\ microtasks' = Append(Tail(microtasks), [kind |-> "resume", call |-> e])
             /\ UNCHANGED qpc
        ELSE /\ microtasks' = Tail(microtasks)
             /\ qpc' = [qpc EXCEPT ![e] = "rejected"]
    /\ UNCHANGED <<deploymentQueue, qname, qexisting, reactions, qoutcome, qstarted>>

\* line 123: the promise returned by existing.catch() is fulfilled, which
\* queues the waiter's continuation behind the microtasks already queued
RunCatch ==
    /\ UNCHANGED notQueue
    /\ microtasks # <<>>
    /\ Head(microtasks).kind = "catch"
    /\ microtasks' = Append(Tail(microtasks),
                            [kind |-> "resume", call |-> Head(microtasks).call])
    /\ UNCHANGED <<deploymentQueue, qpc, qname, qexisting, reactions, qoutcome,
                   qstarted>>

\* lines 126-131 with a second look at the map: a waiter that resumes while
\* another deployment holds the slot returns without calling fn(), its event
\* merged into the deployment that holds the slot
RunResumeCoalesced ==
    /\ UNCHANGED notQueue
    /\ microtasks # <<>>
    /\ Head(microtasks).kind = "resume"
    /\ LET e == Head(microtasks).call IN
        IF deploymentQueue[qname[e]] = NoPromise
        THEN StartDeployment(e, qname[e])
        ELSE /\ qpc' = [qpc EXCEPT ![e] = "done"]
             /\ UNCHANGED <<deploymentQueue, qstarted>>
    /\ microtasks' = Tail(microtasks)
    /\ UNCHANGED <<qname, qexisting, reactions, qoutcome>>

\* lines 126-131: a waiter resumes and starts its own deployment, without
\* looking at the map again
RunResume ==
    /\ UNCHANGED notQueue
    /\ microtasks # <<>>
    /\ Head(microtasks).kind = "resume"
    /\ LET e == Head(microtasks).call IN StartDeployment(e, qname[e])
    /\ microtasks' = Tail(microtasks)
    /\ UNCHANGED <<qname, qexisting, reactions, qoutcome>>

NextQueue ==
    \/ \E e \in Events, name \in Targets : QueueDeployment(e, name)
    \/ \E e \in Events : DeploymentSettles(e)
    \/ RunFinally
    \/ RunCatch
    \/ RunResume

\* the port allocator at rest
IdlePorts ==
    /\ portsFile = <<>>
    /\ appPorts = <<>>
    /\ configsReadable = TRUE
    /\ apc = <<>>
    /\ aname = <<>>
    /\ arange = <<>>
    /\ astate = <<>>
    /\ aseen = <<>>
    /\ acount = 0
    /\ alog = <<>>

\* the deployment engine at rest
IdleDeploy ==
    /\ dpc = "idle"
    /\ dkind = "app"
    /\ dcfg = <<>>
    /\ dstep = 0
    /\ dcalls = <<>>
    /\ dclock = 0
    /\ dstart = 0
    /\ did = 0
    /\ dcommit = ""
    /\ dbuild = -1
    /\ dthrown = ""
    /\ derror = ""
    /\ dduration = 0
    /\ dresult = [kind |-> "none"]
    /\ dbefore = <<>>
    /\ dattempts = 0
    /\ dport = 0
    /\ denv = 0

\* the HTTP handlers at rest
IdleWebhook ==
    /\ wsecret = 0
    /\ wstore = <<>>
    /\ wreq = <<>>
    /\ wpc = <<>>
    /\ wstatus = <<>>
    /\ wbody = <<>>
    /\ wverified = <<>>
    /\ wloads = {}
    /\ wcall = <<>>
    /\ wtrace = <<>>
    /\ vcall = [made |-> FALSE]

\* no command runs
IdleCli ==
    /\ cfiles = <<>>
    /\ cpc = "idle"
    /\ ccmd = [cmd |-> "none"]
    /\ cexit = -1
    /\ cerror = ""
    /\ cloaded = [made |-> FALSE]
    /\ sapps = <<>>
    /\ stodo = <<>>
    /\ nginxFiles = {}
    /\ resolved = [made |-> FALSE]

QueueInit ==
    InitQueue /\ IdleHistory /\ IdlePorts /\ IdleDeploy /\ IdleWebhook /\ IdleCli

SpecQueue == QueueInit /\ [][NextQueue]_vars

\* the deployments started so far for a name, in start order
StartsFor(name) == SelectSeq(qstarted, LAMBDA e : qname[e] = name)

Occurrences(seq, x) == Cardinality({i \in 1..Len(seq) : seq[i] = x})

\* C1: for any number of overlapping trigger events for one target
\* identifier, at no time are two deployments for it in flight.
C1_MutualExclusion ==
    \A name \in Targets : Cardinality(InFlightFor(name)) <= 1

\* C2: a call made while the deployment it found in the map is still running
\* starts its own deployment only after that one has finished, each of the
\* two calls starts exactly one deployment, and when they are the only two
\* events for the target there are exactly two invocations, in that order.
C2_SecondAfterFirst ==
    \A e \in Events : qexisting[e] # NoPromise =>
        LET f == qexisting[e] IN
        /\ qname[f] = qname[e]
        /\ Occurrences(qstarted, f) = 1
        /\ Occurrences(qstarted, e) = (IF qpc[e] = "waiting" THEN 0 ELSE 1)
        /\ (qpc[e] # "waiting" => qpc[f] = "done" /\ qoutcome[f] # "none")
        /\ ({g \in Called : qname[g] = qname[e]} = {e, f} /\ qpc[e] = "done"
                => StartsFor(qname[e]) = <<f, e>>)

C2_Witness ==
    \E e \in Events :
        /\ qexisting[e] # NoPromise
        /\ qpc[e] = "done"
        /\ qoutcome[qexisting[e]] = "failed"
        /\ {g \in Called : qname[g] = qname[e]} = {e, qexisting[e]}

\* The event loop runs every queued microtask, and every deployment that was
\* started ends (deployApp and deployModule return or throw).
QueueFairness ==
    /\ WF_vars(RunFinally)
    /\ WF_vars(RunCatch)
    /\ WF_vars(RunResume)
    /\ \A e \in Events : WF_vars(DeploymentSettles(e))

SpecQueueFair == QueueInit /\ [][NextQueue]_vars /\ QueueFairness

Started(e) == \E i \in 1..Len(qstarted) : qstarted[i] = e

\* the deployment that call e found in T's slot ended badly: it failed, or
\* threw
OccupantFailed(e) ==
    /\ qexisting[e] # NoPromise
    /\ qoutcome[qexisting[e]] \in {"failed", "threw"}

C15_TargetsIndependent ==
    \A e \in Called :
        /\ qexisting[e] # NoPromise => qname[qexisting[e]] = qname[e]
        /\ qexisting[e] = NoPromise => qpc[e] # "waiting" /\ Started(e)

C15_Witness ==
    \E e, f \in Events :
        /\ qname[e] = "api" /\ qname[f] = "wyrt/chat"
        /\ InFlight(e) /\ InFlight(f)
        /\ e < f

\* C30: whenever a deployment for a target is executing, the map holds an
\* entry for the target and the entry is the promise of that deployment; a
\* finishing deployment removes only its own entry, so that it leaves no
\* executing deployment without its entry.
C30_EntryIsExecuting ==
    \A e \in Events : InFlight(e) => deploymentQueue[qname[e]] = e

\* C39: every trigger event that was accepted (its handler answered
\* 'Deployment started' and called queueDeployment) eventually leads to
\* exactly one invocation of the engine for its target, every deployment
\* ending: no event is started twice, none is dropped or merged into another
\* while it waits, and there are never more invocations than events.
C39_AcceptedEventDeploysOnce ==
    /\ [](\A e \in Events :
            /\ Occurrences(qstarted, e) <= 1
            /\ (Started(e) => e \in Called)
            /\ (qpc[e] \in {"running", "settled", "done"} => Started(e)))
    /\ \A e \in Events :
          (qpc[e] # "idle") ~> (Occurrences(qstarted, e) = 1 /\ qpc[e] = "done")

C39_Witness ==
    \E e, f \in Events :
        /\ e < f
        /\ qexisting[e] # NoPromise
        /\ qexisting[f] = qexisting[e]
        /\ qpc[e] = "done" /\ qpc[f] = "done"
        /\ Occurrences(qstarted, e) = 1 /\ Occurrences(qstarted, f) = 1

\* ---- a burst of trigger events for one target

\* number of trigger events in a burst
MaxBurst == 5

BurstEvents == 1..MaxBurst

InitBurst ==
    /\ deploymentQueue = [n \in Targets |-> NoPromise]
    /\ qpc = [e \in BurstEvents |-> "idle"]
    /\ qname = [e \in BurstEvents |-> "api"]
    /\ qexisting = [e \in BurstEvents |-> NoPromise]
    /\ reactions = [e \in BurstEvents |-> <<>>]
    /\ microtasks = <<>>
    /\ qoutcome = [e \in BurstEvents |-> "none"]
    /\ qstarted = <<>>

BurstInit ==
    InitBurst /\ IdleHistory /\ IdlePorts /\ IdleDeploy /\ IdleWebhook /\ IdleCli

NextBurst ==
    \/ \E e \in BurstEvents : QueueDeployment(e, "api")
    \/ \E e \in BurstEvents : DeploymentSettles(e)
    \/ RunFinally
    \/ RunCatch
    \/ RunResume

SpecBurst == BurstInit /\ [][NextBurst]_vars

\* C40: the deployments of one target start in the order in which their
\* trigger events were enqueued (events are numbered in the order of their
\* queueDeployment calls): an event enqueued later never starts before one
\* enqueued earlier for the same target.
C40_StartsInEnqueueOrder ==
    \A e, f \in DOMAIN qpc :
        (e < f /\ qname[e] = qname[f] /\ qpc[e] # "idle" /\ Started(f)) => Started(e)

----------------------------------------------------------------------------
(* Webhook server: signature check and HTTP handlers *)

\* number of HTTP requests in a run
MaxRequests == 2

\* number of hex characters of a digest (64 for SHA-256)
DigestLen == 2

Handlers == 1..MaxRequests

\* strings are sequences of one-character strings
HexChars == <<"0", "1", "2", "3", "4", "5", "6", "7", "8", "9",
              "a", "b", "c", "d", "e", "f">>

\* 'sha256=', line 107
SignaturePrefix == <<"s", "h", "a", "2", "5", "6", "=">>

\* webhook secrets; 0 is the empty string (startServer, server/index.ts 12-22)
Secrets == {0, 1}

\* ---- request bodies

NoRepository == [present |-> FALSE, owner |-> "", name |-> ""]

\* payload.repository: name is the repository name, full_name is owner/name
Repository(owner, name) == [present |-> TRUE, owner |-> owner, name |-> name]

\* payload.ref: absent, a string (its segments between the '/'), or a JSON
\* value that is not a string
NoRef == [kind |-> "absent", segs |-> <<>>]
Ref(segs) == [kind |-> "string", segs |-> segs]
NumberRef == [kind |-> "number", segs |-> <<>>]

Document(repository, ref) == [repository |-> repository, ref |-> ref]

\* the JSON documents sent in the run
Documents ==
    << Document(Repository("acme", "api"), Ref(<<"refs", "heads", "main">>)),
       Document(Repository("acme", "api"), Ref(<<"refs", "heads", "develop">>)),
       Document(Repository("acme", "api"), Ref(<<"refs", "heads", "feature", "main">>)),
       Document(Repository("acme", "chat"), Ref(<<"refs", "heads", "main">>)),
       Document(Repository("acme", "other"), Ref(<<"refs", "heads", "main">>)),
       Document(NoRepository, Ref(<<"refs", "heads", "main">>)),
       Document(Repository("acme", "api"), NoRef),
       Document(Repository("acme", "api"), NumberRef) >>

DocumentIndex(doc) == CHOOSE i \in 1..Len(Documents) : Documents[i] = doc

\* the bytes of a request body: a JSON document in the form JSON.stringify
\* gives it ("compact") or in another form (whitespace, escapes)
Forms == <<"compact", "other">>

Bytes(doc, form) == [doc |-> doc, form |-> form]

\* express.json(), server/index.ts 27: req.body is the parsed document
JsonParse(bytes) == bytes.doc

\* JSON.stringify(req.body), line 186
JsonStringify(doc) == Bytes(doc, "compact")

\* ---- verifySignature

\* hmac.update(payload).digest('hex'), lines 106-107: the hex digest, here a
\* DigestLen-digit function of key and message that is one-to-one on the
\* keys and messages of the run
HmacHex(secret, payload) ==
    LET form == CHOOSE i \in 1..Len(Forms) : Forms[i] = payload.form
        n == ((DocumentIndex(payload.doc) * 2 + (form - 1)) * 2 + secret)
    IN [i \in 1..DigestLen |-> HexChars[((n \div (16 ^ (DigestLen - i))) % 16) + 1]]

Digest(secret, payload) == SignaturePrefix \o HmacHex(secret, payload)

\* a request header: absent, or a string
NoHeader == [present |-> FALSE, value |-> <<>>]
Header(value) == [present |-> TRUE, value |-> value]

\* crypto.timingSafeEqual on the two buffers, line 110: throws when the
\* lengths differ
TimingSafeEqual(a, b) ==
    IF Len(a) # Len(b) THEN "throws"
    ELSE IF \A i \in 1..Len(a) : a[i] = b[i] THEN "true" ELSE "false"

\* a comparison that stops at the end of the shorter string
VerifySignaturePrefix(secret, payload, signature) ==
    IF ~signature.present \/ signature.value = <<>> THEN FALSE
    ELSE LET digest == Digest(secret, payload)
             n == IF Len(signature.value) < Len(digest)
                  THEN Len(signature.value) ELSE Len(digest)
         IN \A i \in 1..n : signature.value[i] = digest[i]

\* a check that lets every request through
VerifySignatureAlways(secret, payload, signature) == TRUE

\* verifySignature, lines 99-114
VerifySignature(secret, payload, signature) ==
    IF ~signature.present \/ signature.value = <<>> THEN FALSE
    ELSE LET digest == Digest(secret, payload)
         IN TimingSafeEqual(signature.value, digest) = "true"

\* the signature headers tried: none, the digest itself, and strings that
\* differ from the digest in one character or in length
OtherChars == {"0", "1", "f", "F", "=", " "}

SignatureHeaders(digest) ==
    {NoHeader, Header(digest)}
    \cup {Header([digest EXCEPT ![i] = c]) : i \in 1..Len(digest), c \in OtherChars}
    \cup {Header(SubSeq(digest, 1, k)) : k \in 0..(Len(digest) - 1)}
    \cup {Header(digest \o <<c>>) : c \in OtherChars}

\* the request bodies signed in calls of verifySignature alone
SignedPayloads == {Bytes(Documents[i], Forms[j]) : i \in 1..2, j \in 1..Len(Forms)}

InitSignature ==
    /\ wsecret = 0
    /\ wstore = <<>>
    /\ wreq = <<>>
    /\ wpc = <<>>
    /\ wstatus = <<>>
    /\ wbody = <<>>
    /\ wverified = <<>>
    /\ wloads = {}
    /\ wcall = <<>>
    /\ wtrace = <<>>
    /\ vcall = [made |-> FALSE]

\* the call verifySignature(secret, payload, signature) of a run
VerifyCall(secret, payload, signature) ==
    /\ ~vcall.made
    /\ vcall' = [made |-> TRUE, secret |-> secret, payload |-> payload,
                 signature |-> signature,
                 result |-> VerifySignature(secret, payload, signature)]
    /\ UNCHANGED <<wsecret, wstore, wreq, wpc, wstatus, wbody, wverified, wloads,
                   wcall, wtrace>>
    /\ UNCHANGED <<qvars, hvars, pvars, dvars, cvars>>

NextSignature ==
    \E secret \in Secrets, payload \in SignedPayloads, signed \in SignedPayloads,
       key \in Secrets :
        \E signature \in SignatureHeaders(Digest(key, signed)) :
            VerifyCall(secret, payload, signature)

SignatureInit ==
    InitSignature /\ InitQueue /\ IdleHistory /\ IdlePorts /\ IdleDeploy /\ IdleCli

SpecSignature == SignatureInit /\ [][NextSignature]_vars

\* C20: verifySignature(S, B, h) is true when h is 'sha256=' followed by the
\* hex HMAC-SHA256 of B under S, false for every h that differs from that
\* string in a character or in length, and false when h is absent.
C20_VerifySignature ==
    vcall.made =>
        (vcall.result <=>
            /\ vcall.signature.present
            /\ vcall.signature.value = Digest(vcall.secret, vcall.payload))

\* the three cases: accepted, one character off, and one character short
C20_Witness ==
    /\ vcall.made
    /\ vcall.signature.present
    /\ Len(vcall.signature.value) = Len(Digest(vcall.secret, vcall.payload)) + 1
    /\ SubSeq(vcall.signature.value, 1, Len(vcall.signature.value) - 1)
            = Digest(vcall.secret, vcall.payload)
    /\ ~vcall.result

\* ---- the descriptor store

\* an application descriptor: config.repo as owner and name (what lines
\* 148-150 leave of the URL), config.branch as a string
AppDescriptor(name, owner, repo, branch) ==
    [name |-> name, repo |-> <<owner, repo>>, branch |-> branch]

\* an engine descriptor with its modules
EngineDescriptor(name, modules) == [name |-> name, modules |-> modules]

Store(apps, engines) == [apps |-> apps, engines |-> engines]

\* the descriptor stores of the runs: an application and an engine module, or
\* nothing configured
Stores ==
    { Store(<<AppDescriptor("api", "acme", "api", "main")>>,
            <<EngineDescriptor("wyrt",
                  <<AppDescriptor("chat", "acme", "chat", "main")>>)>>),
      Store(<<>>, <<>>) }

\* lines 152 and 165: the full name is the same, or the URL ends with
\* '/' + repoName
RepoMatches(descriptor, repoFullName, repoName) ==
    \/ descriptor.repo = repoFullName
    \/ descriptor.repo[2] = repoName

NoMatch == [found |-> FALSE, type |-> "", name |-> "", engine |-> "", branch |-> ""]

\* the modules of all engines, in the order of lines 158-159
RECURSIVE ModulesOf(_)
ModulesOf(engines) ==
    IF engines = <<>> THEN <<>>
    ELSE [i \in 1..Len(Head(engines).modules) |->
              [engine |-> Head(engines).name, module |-> Head(engines).modules[i]]]
         \o ModulesOf(Tail(engines))

\* findAppByRepo, lines 138-173: the first application that matches, else
\* the first engine module that matches, else null
FindAppByRepo(store, repoFullName, repoName) ==
    LET apps == {i \in 1..Len(store.apps) :
                    RepoMatches(store.apps[i], repoFullName, repoName)}
        modules == ModulesOf(store.engines)
        mods == {i \in 1..Len(modules) :
                    RepoMatches(modules[i].module, repoFullName, repoName)}
    IN IF apps # {}
       THEN LET a == store.apps[CHOOSE i \in apps : \A j \in apps : i <= j]
            IN [found |-> TRUE, type |-> "app", name |-> a.name, engine |-> "",
                branch |-> a.branch]
       ELSE IF mods # {}
       THEN LET m == modules[CHOOSE i \in mods : \A j \in mods : i <= j]
            IN [found |-> TRUE, type |-> "module", name |-> m.module.name,
                engine |-> m.engine, branch |-> m.module.branch]
       ELSE NoMatch

\* `${match.engine.name}/${match.name}` for the engine and module of the runs
ModuleTarget(engine, name) ==
    IF engine = "wyrt" /\ name = "chat" THEN "wyrt/chat" ELSE "other"

\* deployName, lines 232-234
DeployName(match) ==
    IF match.type = "module" THEN ModuleTarget(match.engine, match.name)
    ELSE match.name

\* ref.split('/').pop(), line 208
Branch(ref) == ref.segs[Len(ref.segs)]

\* apps.get(name), line 269
AppNamed(store, name) == {i \in 1..Len(store.apps) : store.apps[i].name = name}

\* ---- requests

WebhookRequest(signature, event, bytes) ==
    [route |-> "webhook", signature |-> signature, event |-> event, bytes |-> bytes]

ManualRequest(name) == [route |-> "manual", name |-> name]

NoRequest == [route |-> "none"]

\* what a sender of the bytes puts in x-hub-signature-256: nothing, the
\* digest of the bytes under the secret, or that digest with its last
\* character changed
SentHeaders(secret, bytes) ==
    LET digest == Digest(secret, bytes)
        last == Len(digest)
    IN { NoHeader,
         Header(digest),
         Header([digest EXCEPT ![last] = IF @ = "0" THEN "1" ELSE "0"]) }

\* the webhook requests of the runs: a push of the first document under
\* every header, signed with another secret, and signed in its other form;
\* signed ping events; and every document as a signed push
WebhookRequests(secret) ==
    {WebhookRequest(h, "push", Bytes(Documents[1], "compact")) :
        h \in SentHeaders(secret, Bytes(Documents[1], "compact"))
              \cup {Header(Digest(1 - secret, Bytes(Documents[1], "compact")))}}
    \cup {WebhookRequest(Header(Digest(secret, Bytes(Documents[1], "other"))),
                         e, Bytes(Documents[1], "other")) : e \in {"push", "ping"}}
    \cup {WebhookRequest(Header(Digest(secret, Bytes(Documents[i], "compact"))),
                         "ping", Bytes(Documents[i], "compact")) : i \in {1, 6}}
    \cup {WebhookRequest(Header(Digest(secret, Bytes(Documents[i], "compact"))),
                         "push", Bytes(Documents[i], "compact")) :
            i \in 1..Len(Documents)}

WebhookRequestsUnder == [secret \in Secrets |-> WebhookRequests(secret)]

\* the names in POST /deploy/:name
ManualNames == {"api", "wyrt", "nope"}

\* ---- the handlers

InitWebhook ==
    /\ wsecret \in Secrets
    /\ wstore \in Stores
    /\ wreq = [r \in Handlers |-> NoRequest]
    /\ wpc = [r \in Handlers |-> "idle"]
    /\ wstatus = [r \in Handlers |-> 0]
    /\ wbody = [r \in Handlers |-> <<>>]
    /\ wverified = [r \in Handlers |-> FALSE]
    /\ wloads = {}
    /\ wcall = [r \in Handlers |-> 0]
    /\ wtrace = [r \in Handlers |-> <<>>]
    /\ vcall = [made |-> FALSE]

\* a request is taken up by the event loop as a macrotask; requests are
\* numbered in the order they are taken up
Arrives(r, request) ==
    /\ microtasks = <<>>
    /\ wpc[r] = "idle"
    /\ \A q \in Handlers : q < r => wpc[q] # "idle"
    /\ wreq' = [wreq EXCEPT ![r] = request]

\* res.status(status).send(body)
Respond(r, status, body) ==
    /\ wstatus' = [wstatus EXCEPT ![r] = status]
    /\ wbody' = [wbody EXCEPT ![r] = body]
    /\ wtrace' = [wtrace EXCEPT ![r] = Append(@, "respond")]

\* the handler returns after its response
Returns(r) == wpc' = [wpc EXCEPT ![r] = "done"]

\* the async handler throws: its promise rejects with nobody awaiting it, so
\* the request is left without a response, or given 500 by a framework that
\* catches the rejection
HandlerThrows(r) ==
    /\ wpc' = [wpc EXCEPT ![r] = "threw"]
    /\ \E status \in {0, 500} : wstatus' = [wstatus EXCEPT ![r] = status]
    /\ UNCHANGED <<wbody, wtrace>>

\* every event type counts as a push
HandledEventAny(event) == TRUE

\* line 194
HandledEvent(event) == event = "push"

\* the next queueDeployment call
NextCall == CHOOSE e \in Events : qpc[e] = "idle" /\ \A f \in Events : f < e => qpc[f] # "idle"

\* the deployment is queued first and the response sent after
AcceptQueueFirst(r, name, body) ==
    /\ \E e \in Events : qpc[e] = "idle"
    /\ wstatus' = [wstatus EXCEPT ![r] = 200]
    /\ wbody' = [wbody EXCEPT ![r] = body]
    /\ wcall' = [wcall EXCEPT ![r] = NextCall]
    /\ QueueCall(NextCall, name)
    /\ wtrace' = [wtrace EXCEPT ![r] = @ \o <<"queue", "respond">>]
    /\ Returns(r)

\* lines 228-248 (276-285): the 200 response, then queueDeployment(name, fn)
\* up to its first await, with the returned promise left alone
Accept(r, name, body) ==
    /\ \E e \in Events : qpc[e] = "idle"
    /\ wstatus' = [wstatus EXCEPT ![r] = 200]
    /\ wbody' = [wbody EXCEPT ![r] = body]
    /\ wtrace' = [wtrace EXCEPT ![r] = @ \o <<"respond", "queue">>]
    /\ wcall' = [wcall EXCEPT ![r] = NextCall]
    /\ QueueCall(NextCall, name)
    /\ Returns(r)

\* the webhook handler, lines 177-213, up to its first await
WebhookReceives(r, request) ==
    /\ UNCHANGED notWebhook
    /\ Arrives(r, request)
    /\ LET body == JsonParse(request.bytes)
           rawBody == JsonStringify(body)
           verified == VerifySignature(wsecret, rawBody, request.signature)
       IN
        /\ wverified' = [wverified EXCEPT ![r] = verified]
        /\ IF ~verified
           THEN /\ Respond(r, 401, <<"Unauthorized">>)
                /\ Returns(r)
                /\ UNCHANGED wloads
           ELSE IF ~HandledEvent(request.event)
           THEN /\ Respond(r, 200, <<"Event", request.event, "ignored">>)
                /\ Returns(r)
                /\ UNCHANGED wloads
           ELSE IF ~body.repository.present \/ body.ref.kind = "absent"
           THEN /\ Respond(r, 400, <<"Invalid payload">>)
                /\ Returns(r)
                /\ UNCHANGED wloads
           ELSE IF body.ref.kind # "string"
           THEN \* line 208: ref.split is not a function
                /\ HandlerThrows(r)
                /\ UNCHANGED wloads
           ELSE \* line 213: findAppByRepo awaits loadAppConfigs()
                /\ wpc' = [wpc EXCEPT ![r] = "resolving"]
                /\ wloads' = wloads \cup {r}
                /\ UNCHANGED <<wstatus, wbody, wtrace>>
    /\ UNCHANGED <<wsecret, wstore, wcall, vcall>>
    /\ UNCHANGED qvars

\* the webhook handler, lines 213-249, from the return of findAppByRepo
WebhookResolved(r) ==
    /\ UNCHANGED notWebhook
    /\ microtasks = <<>>
    /\ wpc[r] = "resolving"
    /\ wreq[r].route = "webhook"
    /\ LET body == JsonParse(wreq[r].bytes)
           match == FindAppByRepo(wstore, <<body.repository.owner, body.repository.name>>,
                                  body.repository.name)
           branch == Branch(body.ref)
       IN IF ~match.found
          THEN /\ Respond(r, 200, <<"Repository not configured">>)
               /\ Returns(r)
               /\ UNCHANGED <<qvars, wcall>>
          ELSE IF branch # match.branch
          THEN /\ Respond(r, 200, <<"Branch", branch, "ignored">>)
               /\ Returns(r)
               /\ UNCHANGED <<qvars, wcall>>
          ELSE Accept(r, DeployName(match), <<"Deployment started">>)
    /\ UNCHANGED <<wsecret, wstore, wreq, wverified, wloads, vcall>>

\* the manual deploy handler, lines 263-268, up to its await of loadAppConfigs()
ManualReceives(r, name) ==
    /\ UNCHANGED notWebhook
    /\ Arrives(r, ManualRequest(name))
    /\ wpc' = [wpc EXCEPT ![r] = "resolving"]
    /\ wloads' = wloads \cup {r}
    /\ UNCHANGED <<wsecret, wstore, wstatus, wbody, wverified, wcall, wtrace, vcall>>
    /\ UNCHANGED qvars

\* the manual deploy handler, lines 269-286
ManualResolved(r) ==
    /\ UNCHANGED notWebhook
    /\ microtasks = <<>>
    /\ wpc[r] = "resolving"
    /\ wreq[r].route = "manual"
    /\ IF AppNamed(wstore, wreq[r].name) = {}
       THEN /\ Respond(r, 404, <<"App not found:", wreq[r].name>>)
            /\ Returns(r)
            /\ UNCHANGED <<qvars, wcall>>
       ELSE Accept(r, wreq[r].name, <<"Deployment started for", wreq[r].name>>)
    /\ UNCHANGED <<wsecret, wstore, wreq, wverified, wloads, vcall>>

\* the deployments the handlers queued run as in the queue above
Deployments ==
    \/ \E e \in Events : DeploymentSettles(e)
    \/ RunFinally
    \/ RunCatch
    \/ RunResume

NextWebhook ==
    \/ \E r \in Handlers, request \in WebhookRequestsUnder[wsecret] :
            WebhookReceives(r, request)
    \/ \E r \in Handlers : WebhookResolved(r)
    \/ \E r \in Handlers, name \in ManualNames : ManualReceives(r, name)
    \/ \E r \in Handlers : ManualResolved(r)
    \/ Deployments

WebhookInit ==
    InitWebhook /\ InitQueue /\ IdleHistory /\ IdlePorts /\ IdleDeploy /\ IdleCli

SpecWebhook == WebhookInit /\ [][NextWebhook]_vars

\* the request's signature header is the digest of the bytes sent, under
\* the configured secret
ValidlySigned(r) ==
    /\ wreq[r].route = "webhook"
    /\ wreq[r].signature = Header(Digest(wsecret, wreq[r].bytes))

Answered(r) == wpc[r] \in {"done", "threw"}

\* index of an entry in the trace, 0 if there is none
TraceIndex(r, what) ==
    LET at == {i \in 1..Len(wtrace[r]) : wtrace[r][i] = what}
    IN IF at = {} THEN 0 ELSE CHOOSE i \in at : \A j \in at : i <= j

PushedBranch(ref) == SubSeq(ref.segs, 3, Len(ref.segs))

\* the repository of the request is configured
MatchOf(r) ==
    LET body == JsonParse(wreq[r].bytes)
    IN FindAppByRepo(wstore, <<body.repository.owner, body.repository.name>>,
                     body.repository.name)

\* C12: a validly signed push whose pushed branch (the ref without
\* refs/heads/, branch names with '/' included) differs from the matched
\* target's configured branch is answered 200 and queues no deployment.
C12_BranchFilter ==
    \A r \in Handlers :
        (/\ Answered(r)
         /\ ValidlySigned(r)
         /\ wreq[r].event = "push"
         /\ JsonParse(wreq[r].bytes).repository.present
         /\ JsonParse(wreq[r].bytes).ref.kind = "string"
         /\ MatchOf(r).found
         /\ PushedBranch(JsonParse(wreq[r].bytes).ref) # <<MatchOf(r).branch>>)
        => /\ wstatus[r] = 200
           /\ wcall[r] = 0

\* C16: for an accepted push and an accepted POST /deploy/:name the 200
\* response is sent before the deployment is queued, and it is sent while
\* the current and earlier deployments of the target are still to finish:
\* whenever the request's own deployment waits or runs, the response is out.
C16_RespondFirst ==
    \A r \in Handlers :
        /\ (TraceIndex(r, "queue") # 0 =>
                /\ TraceIndex(r, "respond") # 0
                /\ TraceIndex(r, "respond") < TraceIndex(r, "queue"))
        /\ (wcall[r] # 0 =>
                /\ wstatus[r] = 200
                /\ TraceIndex(r, "queue") # 0
                /\ wpc[r] = "done")

\* accepted while the deployment of an earlier request for the target runs
C16_Witness ==
    \E r, q \in Handlers :
        /\ wreq[r].route = "webhook" /\ wreq[q].route = "manual"
        /\ wcall[r] # 0 /\ wcall[q] # 0
        /\ qpc[wcall[q]] = "running"
        /\ qpc[wcall[r]] = "waiting"
        /\ wstatus[r] = 200

\* C18: a validly signed webhook request whose event type is not push is
\* answered 200 as ignored, without target resolution and without a
\* deployment, whatever its payload.
C18_OtherEventsIgnored ==
    \A r \in Handlers :
        (Answered(r) /\ ValidlySigned(r) /\ wreq[r].event # "push") =>
            /\ wstatus[r] = 200
            /\ wbody[r] = <<"Event", wreq[r].event, "ignored">>
            /\ r \notin wloads
            /\ wcall[r] = 0

\* the status the table gives a request
TableStatus(r) ==
    IF wreq[r].route = "manual"
    THEN IF AppNamed(wstore, wreq[r].name) = {} THEN 404 ELSE 200
    ELSE IF ~ValidlySigned(r) THEN 401
    ELSE IF /\ wreq[r].event = "push"
            /\ \/ ~JsonParse(wreq[r].bytes).repository.present
               \/ JsonParse(wreq[r].bytes).ref.kind = "absent"
    THEN 400
    ELSE 200

\* C19: every request gets the status of the table: 401 for a missing or
\* invalid signature, 400 for a signed push without repository or ref, 404
\* for POST /deploy/:name with no such application, 200 otherwise.
C19_StatusTable ==
    \A r \in Handlers : Answered(r) => wstatus[r] = TableStatus(r)

\* C21: the signature is checked against the body bytes as sent: a push
\* whose header is the HMAC of exactly those bytes passes the verification
\* and is not answered 401, also when the bytes differ from the
\* re-serialized parsed JSON.
C21_RawBodyVerified ==
    \A r \in Handlers :
        (wpc[r] # "idle" /\ ValidlySigned(r) /\ wreq[r].event = "push") =>
            /\ wverified[r]
            /\ wstatus[r] # 401

\* C36: with no webhook secret configured (the secret is the empty string)
\* every request to the webhook endpoints is answered 401 and queues no
\* deployment, a request signed with the empty string as key included.
C36_NoSecretRejectsAll ==
    wsecret = 0 =>
        \A r \in Handlers :
            (wreq[r].route = "webhook" /\ wpc[r] # "idle") =>
                /\ wpc[r] = "done"
                /\ wstatus[r] = 401
                /\ wcall[r] = 0

\* C37: every deployment started over HTTP was preceded, in the same
\* request, by a successful signature verification against the configured
\* secret; no route lets an unauthenticated request start a deployment.
C37_VerifiedBeforeDeployment ==
    \A r \in Handlers : wcall[r] # 0 => wverified[r]

\* ---- repositories of the same name under different owners

\* descriptor stores in which a repository name occurs under two owners: an
\* application of rival/chat listed before the engine module of acme/chat;
\* an application of rival/api alone; and the application and module of acme
LookupStores ==
    { Store(<<AppDescriptor("api", "rival", "chat", "main")>>,
            <<EngineDescriptor("wyrt",
                  <<AppDescriptor("chat", "acme", "chat", "main")>>)>>),
      Store(<<AppDescriptor("api", "rival", "api", "main")>>, <<>>),
      Store(<<AppDescriptor("api", "acme", "api", "main")>>,
            <<EngineDescriptor("wyrt",
                  <<AppDescriptor("chat", "acme", "chat", "main")>>)>>) }

InitLookup ==
    /\ wsecret \in Secrets
    /\ wstore \in LookupStores
    /\ wreq = [r \in Handlers |-> NoRequest]
    /\ wpc = [r \in Handlers |-> "idle"]
    /\ wstatus = [r \in Handlers |-> 0]
    /\ wbody = [r \in Handlers |-> <<>>]
    /\ wverified = [r \in Handlers |-> FALSE]
    /\ wloads = {}
    /\ wcall = [r \in Handlers |-> 0]
    /\ wtrace = [r \in Handlers |-> <<>>]
    /\ vcall = [made |-> FALSE]

LookupInit ==
    InitLookup /\ InitQueue /\ IdleHistory /\ IdlePorts /\ IdleDeploy /\ IdleCli

SpecLookup == LookupInit /\ [][NextWebhook]_vars

\* the configured targets with the owner/repo of their source URL
ConfiguredTargets(store) ==
    LET modules == ModulesOf(store.engines) IN
    {[target |-> store.apps[i].name, repo |-> store.apps[i].repo] :
        i \in 1..Len(store.apps)}
    \cup {[target |-> ModuleTarget(modules[i].engine, modules[i].module.name),
            repo |-> modules[i].module.repo] : i \in 1..Len(modules)}

\* the push of request r went through findAppByRepo and the handler returned
PushResolved(r) ==
    /\ wreq[r].route = "webhook"
    /\ wpc[r] = "done"
    /\ wverified[r]
    /\ HandledEvent(wreq[r].event)
    /\ JsonParse(wreq[r].bytes).repository.present
    /\ JsonParse(wreq[r].bytes).ref.kind = "string"

\* C38: when the full repository name of a push is the owner/repo of some
\* configured target, the deployment queued is for a target with that exact
\* owner/repo (a target matching only by its /name suffix is chosen only
\* when there is no exact match); a push that matches no configured target
\* is answered 200 and queues no deployment.
C38_ExactMatchPreferred ==
    \A r \in Handlers : PushResolved(r) =>
        LET repository == JsonParse(wreq[r].bytes).repository
            fullName == <<repository.owner, repository.name>>
            targets == ConfiguredTargets(wstore)
            exact == {t \in targets : t.repo = fullName}
            suffix == {t \in targets : t.repo[2] = repository.name}
        IN /\ (wcall[r] # 0 /\ exact # {})
                => \E t \in exact : qname[wcall[r]] = t.target
           /\ (exact \cup suffix = {})
                => wstatus[r] = 200 /\ wcall[r] = 0

\* ---- webhook and manual triggers of one application

\* number of requests in a run of triggers
MaxTriggers == 3

Triggers == 1..MaxTriggers

\* the names in POST /deploy/:name: the application, the engine, its module
TriggerNames == {"api", "wyrt", "chat"}

\* a signed push to the configured branch of the application's repository
ApiPush ==
    WebhookRequest(Header(Digest(1, Bytes(Documents[1], "compact"))), "push",
                   Bytes(Documents[1], "compact"))

InitTriggers ==
    /\ wsecret = 1
    /\ wstore = Store(<<AppDescriptor("api", "acme", "api", "main")>>,
                      <<EngineDescriptor("wyrt",
                            <<AppDescriptor("chat", "acme", "chat", "main")>>)>>)
    /\ wreq = [r \in Triggers |-> NoRequest]
    /\ wpc = [r \in Triggers |-> "idle"]
    /\ wstatus = [r \in Triggers |-> 0]
    /\ wbody = [r \in Triggers |-> <<>>]
    /\ wverified = [r \in Triggers |-> FALSE]
    /\ wloads = {}
    /\ wcall = [r \in Triggers |-> 0]
    /\ wtrace = [r \in Triggers |-> <<>>]
    /\ vcall = [made |-> FALSE]

NextTriggers ==
    \/ \E r \in Triggers : WebhookReceives(r, ApiPush)
    \/ \E r \in Triggers : WebhookResolved(r)
    \/ \E r \in Triggers, name \in TriggerNames : ManualReceives(r, name)
    \/ \E r \in Triggers : ManualResolved(r)
    \/ Deployments

TriggersInit ==
    InitTriggers /\ InitQueue /\ IdleHistory /\ IdlePorts /\ IdleDeploy /\ IdleCli

SpecTriggers == TriggersInit /\ [][NextTriggers]_vars

\* the request was accepted by the webhook route for the application
WebhookFor(q, name) ==
    /\ wreq[q].route = "webhook"
    /\ wcall[q] # 0
    /\ MatchOf(q).type = "app"
    /\ MatchOf(q).name = name

\* C23: POST /deploy/:name answers 404 and queues nothing for a name that is
\* no configured application (an engine's or a module's name included); for
\* an application it queues the deployment under the key the webhook's
\* deployments of the application have, and a deployment it started and one
\* the webhook started for that application never run at the same time.
C23_ManualDeploy ==
    \A r \in Triggers :
        (wreq[r].route = "manual" /\ wpc[r] = "done") =>
            IF AppNamed(wstore, wreq[r].name) = {}
            THEN wstatus[r] = 404 /\ wcall[r] = 0
            ELSE /\ wstatus[r] = 200
                 /\ wcall[r] # 0
                 /\ \A q \in Triggers :
                        WebhookFor(q, wreq[r].name) =>
                            /\ qname[wcall[q]] = qname[wcall[r]]
                            /\ ~(qpc[wcall[q]] = "running" /\ qpc[wcall[r]] = "running")

----------------------------------------------------------------------------
(* Deployment history store *)

\* state[appName].history.slice(0, 10), line 212
HistoryCap == 10

Min(a, b) == IF a < b THEN a ELSE b

\* Array.prototype.slice(0, n)
Slice0(seq, n) == SubSeq(seq, 1, Min(Len(seq), n))

\* lines 204-212 with current set only when the target's entry is created
RecordIntoFirstCurrent(state, appName, record) ==
    LET old == IF appName \in DOMAIN state THEN state[appName].history ELSE <<>>
    IN [t \in DOMAIN state \cup {appName} |->
            IF t = appName
            THEN [current |-> IF appName \in DOMAIN state THEN state[appName].current
                              ELSE record.id,
                  history |-> Slice0(<<record>> \o old, HistoryCap)]
            ELSE state[t]]

\* lines 204-212 with the slice dropped: the history grows without bound
RecordIntoUncapped(state, appName, record) ==
    LET old == IF appName \in DOMAIN state THEN state[appName].history ELSE <<>>
    IN [t \in DOMAIN state \cup {appName} |->
            IF t = appName
            THEN [current |-> record.id, history |-> <<record>> \o old]
            ELSE state[t]]

\* lines 204-212 of recordDeployment, on the loaded document: create the
\* target's entry if missing, set current, unshift the record, keep 10
RecordInto(state, appName, record) ==
    LET old == IF appName \in DOMAIN state THEN state[appName].history ELSE <<>>
    IN [t \in DOMAIN state \cup {appName} |->
            IF t = appName
            THEN [current |-> record.id,
                  history |-> Slice0(<<record>> \o old, HistoryCap)]
            ELSE state[t]]

\* Sequential use (the CLI: one deploy command after another)
InitHistory ==
    /\ deployments = <<>>
    /\ rcallers = {1}
    /\ rlimit = MaxRecords
    /\ rpc = [c \in 1..MaxRecorders |-> "idle"]
    /\ rapp = [c \in 1..MaxRecorders |-> "api"]
    /\ rrecord = [c \in 1..MaxRecorders |-> [id |-> 0, status |-> "success"]]
    /\ rstate = [c \in 1..MaxRecorders |-> <<>>]
    /\ rcount = 0
    /\ rseen = [c \in 1..MaxRecorders |-> 0]
    /\ rlog = <<>>

\* The webhook server: deployments run concurrently, so recordDeployment
\* calls overlap
InitHistoryRace ==
    /\ deployments = <<>>
    /\ rcallers = 1..MaxRecorders
    /\ rlimit = MaxRaceRecords
    /\ rpc = [c \in 1..MaxRecorders |-> "idle"]
    /\ rapp = [c \in 1..MaxRecorders |-> "api"]
    /\ rrecord = [c \in 1..MaxRecorders |-> [id |-> 0, status |-> "success"]]
    /\ rstate = [c \in 1..MaxRecorders |-> <<>>]
    /\ rcount = 0
    /\ rseen = [c \in 1..MaxRecorders |-> 0]
    /\ rlog = <<>>

\* recordDeployment up to the end of line 202: the document is read
\* (loadStateFile, lines 92-103).  Records get ids in call order.
RecordLoad(c, appName, status) ==
    /\ UNCHANGED notHistory
    /\ c \in rcallers
    /\ rpc[c] = "idle"
    /\ rcount < rlimit
    /\ rcount' = rcount + 1
    /\ rapp' = [rapp EXCEPT ![c] = appName]
    /\ rrecord' = [rrecord EXCEPT ![c] = [id |-> rcount + 1, status |-> status]]
    /\ rstate' = [rstate EXCEPT ![c] = deployments]
    /\ rseen' = [rseen EXCEPT ![c] = Len(rlog)]
    /\ rpc' = [rpc EXCEPT ![c] = "loaded"]
    /\ UNCHANGED <<deployments, rcallers, rlimit, rlog>>

\* lines 204-214: the local document is changed and written back whole
\* (saveStateFile, lines 106-109)
RecordSave(c) ==
    /\ UNCHANGED notHistory
    /\ rpc[c] = "loaded"
    /\ deployments' = RecordInto(rstate[c], rapp[c], rrecord[c])
    /\ rlog' = Append(rlog, <<rapp[c], rrecord[c], rseen[c]>>)
    /\ rpc' = [rpc EXCEPT ![c] = "idle"]
    /\ rstate' = [rstate EXCEPT ![c] = <<>>]
    /\ UNCHANGED <<rcallers, rlimit, rapp, rrecord, rcount, rseen>>

NextHistory ==
    \/ \E c \in 1..MaxRecorders, appName \in Targets :
          RecordLoad(c, appName, IF appName = "api" THEN "success" ELSE "failed")
    \/ \E c \in 1..MaxRecorders : RecordSave(c)

HistoryInit ==
    InitHistory /\ InitQueue /\ IdlePorts /\ IdleDeploy /\ IdleWebhook /\ IdleCli

HistoryRaceInit ==
    InitHistoryRace /\ InitQueue /\ IdlePorts /\ IdleDeploy /\ IdleWebhook /\ IdleCli

SpecHistory == HistoryInit /\ [][NextHistory]_vars

SpecHistoryRace == HistoryRaceInit /\ [][NextHistory]_vars

Reverse(seq) == [i \in 1..Len(seq) |-> seq[Len(seq) + 1 - i]]

\* the records of the calls for appName that returned, oldest first
RecordedFor(appName) ==
    LET calls == SelectSeq(rlog, LAMBDA x : x[1] = appName)
    IN [i \in 1..Len(calls) |-> calls[i][2]]

StoredHistory(appName) ==
    IF appName \in DOMAIN deployments THEN deployments[appName].history ELSE <<>>

\* C9: after n sequential recordDeployment calls for a target, its history is
\* the min(n, 10) most recently recorded records, newest first; no record of
\* another target is removed.
C9_HistoryCapped ==
    \A t \in Targets :
        LET recorded == RecordedFor(t)
            n == Len(recorded)
        IN /\ Len(StoredHistory(t)) = Min(n, HistoryCap)
           /\ StoredHistory(t) = Slice0(Reverse(recorded), HistoryCap)

C9_Witness ==
    \E t \in Targets, u \in Targets :
        /\ t # u
        /\ Len(RecordedFor(t)) = HistoryCap + 1
        /\ Len(StoredHistory(t)) = HistoryCap
        /\ Len(StoredHistory(u)) = 1
        /\ StoredHistory(u)[1].id = 1

\* C35: for every target with a non-empty history the stored current id is
\* the id of the first (newest) record of the history, after any sequence
\* of successful and failed deployments.
C35_CurrentIsNewest ==
    \A t \in DOMAIN deployments :
        deployments[t].history # <<>> =>
            deployments[t].current = deployments[t].history[1].id

\* both targets have records, the history of one is past its cap
C35_Witness ==
    /\ Len(StoredHistory("api")) = HistoryCap
    /\ Len(RecordedFor("api")) > HistoryCap
    /\ Len(StoredHistory("wyrt/chat")) >= 1
    /\ deployments["api"].current = rcount
    /\ StoredHistory("api")[1].status = "success"
    /\ StoredHistory("wyrt/chat")[1].status = "failed"

InHistory(appName, record) ==
    \E k \in 1..Len(StoredHistory(appName)) : StoredHistory(appName)[k] = record

\* C10: when two recordDeployment calls for different targets overlap (the
\* one that returns second had loaded before the first returned), both
\* records are in the persisted history once both have returned.
C10_BothRecorded ==
    LET n == Len(rlog) IN
    \A i \in 1..(n - 1) :
        rlog[i][1] # rlog[n][1] /\ rlog[n][3] < i
            => InHistory(rlog[i][1], rlog[i][2]) /\ InHistory(rlog[n][1], rlog[n][2])

----------------------------------------------------------------------------
(* Port allocator *)

AppNames == {"api", "web"}

Ranges == {"standard", "games"}

\* PORT_RANGES (utils/paths.ts), each range cut to RangeSpan + 1 ports
StandardStart == 3001
GamesStart == 4000

RangeStart(range) == IF range = "standard" THEN StandardStart ELSE GamesStart

RangeEnd(range) == RangeStart(range) + RangeSpan

RangePorts(range) == RangeStart(range)..RangeEnd(range)

\* defaultPortAllocations, lines 112-121, with the reserved list and the
\* engines' ports as parameters
PortDocument(reserved, engineManaged, hasRanges) ==
    [allocations |-> <<>>,
     reserved |-> reserved,
     engine_managed |-> engineManaged,
     hasRanges |-> hasRanges,
     next |-> [r \in Ranges |-> RangeStart(r)]]

\* line 146: state.ranges?.[range] || defaultPortAllocations.ranges[range]
Cursor(state, range) ==
    IF state.hasRanges THEN state.next[range] ELSE RangeStart(range)

\* the used ports without the reserved list
UsedPortsNoReserved(state, appName, pinned, readable) ==
    {state.allocations[n] : n \in DOMAIN state.allocations}
        \cup state.engine_managed
        \cup (IF readable
              THEN {pinned[n] : n \in {m \in DOMAIN pinned : pinned[m] # 0 /\ m # appName}}
              ELSE {})

\* lines 150-167: allocated, reserved and engine-managed ports and, when the
\* descriptors can be read, the port fixed in every other descriptor
UsedPorts(state, appName, pinned, readable) ==
    {state.allocations[n] : n \in DOMAIN state.allocations}
        \cup state.reserved
        \cup state.engine_managed
        \cup (IF readable
              THEN {pinned[n] : n \in {m \in DOMAIN pinned : pinned[m] # 0 /\ m # appName}}
              ELSE {})

\* lines 169-171: while (usedPorts.has(port) && port <= rangeConfig.end) port++
RECURSIVE Probe(_, _, _)
Probe(port, used, end) ==
    IF port \in used /\ port <= end THEN Probe(port + 1, used, end) ELSE port

\* line 173 without the throw: the probe's result is taken as it is
RangeExhaustedNever(port, end) == FALSE

\* line 173: if (port > rangeConfig.end) throw
RangeExhausted(port, end) == port > end

\* lines 178-181 keeping the cursor where it was
AllocatedKeepCursor(state, appName, range, port) ==
    [state EXCEPT !.allocations =
        [n \in DOMAIN state.allocations \cup {appName} |->
            IF n = appName THEN port ELSE state.allocations[n]]]

\* lines 178-181: the allocation is added and the range's cursor moved
Allocated(state, appName, range, port) ==
    [state EXCEPT
        !.allocations =
            [n \in DOMAIN state.allocations \cup {appName} |->
                IF n = appName THEN port ELSE state.allocations[n]],
        !.next = IF state.hasRanges
                 THEN [state.next EXCEPT ![range] = port + 1]
                 ELSE state.next]

Allocators == 1..MaxAllocators

NoPort == 0

InitPorts ==
    /\ \E reserved \in SUBSET {StandardStart + 1},
          engineManaged \in SUBSET {GamesStart},
          hasRanges \in BOOLEAN :
          portsFile = PortDocument(reserved, engineManaged, hasRanges)
    /\ \E pin \in {NoPort, StandardStart} :
          appPorts = [n \in AppNames |-> IF n = "web" THEN pin ELSE NoPort]
    /\ configsReadable \in BOOLEAN
    /\ apc = [c \in Allocators |-> "idle"]
    /\ aname = [c \in Allocators |-> "api"]
    /\ arange = [c \in Allocators |-> "standard"]
    /\ astate = [c \in Allocators |-> <<>>]
    /\ aseen = [c \in Allocators |-> 0]
    /\ acount = 0
    /\ alog = <<>>

\* a call that returned port (NoPort: it threw), for a name that had no
\* allocation (fresh) or had one, having loaded after `seen` calls had returned
Returned(appName, range, port, fresh, seen) ==
    [name |-> appName, range |-> range, port |-> port, fresh |-> fresh,
     seen |-> seen]

\* allocatePort up to lines 138-143: the document is read; a name that has an
\* allocation gets it back at once
AllocLoad(c, appName, range) ==
    /\ UNCHANGED notPorts
    /\ apc[c] = "idle"
    /\ acount < MaxAllocs
    /\ acount' = acount + 1
    /\ aname' = [aname EXCEPT ![c] = appName]
    /\ arange' = [arange EXCEPT ![c] = range]
    /\ aseen' = [aseen EXCEPT ![c] = Len(alog)]
    /\ IF appName \in DOMAIN portsFile.allocations
       THEN /\ alog' = Append(alog, Returned(appName, range, portsFile.allocations[appName],
                                            FALSE, Len(alog)))
            /\ UNCHANGED <<apc, astate>>
       ELSE /\ apc' = [apc EXCEPT ![c] = "loaded"]
            /\ astate' = [astate EXCEPT ![c] = portsFile]
            /\ UNCHANGED alog
    /\ UNCHANGED <<portsFile, appPorts, configsReadable>>

\* lines 145-185: the probe from the cursor, then either the throw or the
\* write of the whole changed document
AllocProbe(c) ==
    /\ UNCHANGED notPorts
    /\ apc[c] = "loaded"
    /\ LET state == astate[c]
           end == RangeEnd(arange[c])
           used == UsedPorts(state, aname[c], appPorts, configsReadable)
           port == Probe(Cursor(state, arange[c]), used, end)
       IN IF RangeExhausted(port, end)
          THEN /\ alog' = Append(alog, Returned(aname[c], arange[c], NoPort, TRUE, aseen[c]))
               /\ UNCHANGED portsFile
          ELSE /\ portsFile' = Allocated(state, aname[c], arange[c], port)
               /\ alog' = Append(alog, Returned(aname[c], arange[c], port, TRUE, aseen[c]))
    /\ apc' = [apc EXCEPT ![c] = "idle"]
    /\ astate' = [astate EXCEPT ![c] = <<>>]
    /\ UNCHANGED <<appPorts, configsReadable, aname, arange, aseen, acount>>

NextPorts ==
    \/ \E c \in Allocators, appName \in AppNames, range \in Ranges :
          AllocLoad(c, appName, range)
    \/ \E c \in Allocators : AllocProbe(c)

PortsInit ==
    InitPorts /\ InitQueue /\ IdleHistory /\ IdleDeploy /\ IdleWebhook /\ IdleCli

SpecPorts == PortsInit /\ [][NextPorts]_vars

\* C4: when two allocatePort calls for different names on the same range
\* overlap (the one that returns second had loaded before the first
\* returned) and both return a port, the ports are distinct, both lie in the
\* range, and both allocations are in the persisted document afterwards.
C4_ConcurrentDistinct ==
    LET n == Len(alog) IN
    \A i \in 1..(n - 1) :
        LET a == alog[i]
            b == alog[n]
        IN (/\ a.name # b.name
            /\ a.range = b.range
            /\ b.seen < i
            /\ a.port # NoPort
            /\ b.port # NoPort)
           => /\ a.port # b.port
              /\ a.port \in RangePorts(a.range)
              /\ b.port \in RangePorts(b.range)
              /\ a.name \in DOMAIN portsFile.allocations
              /\ b.name \in DOMAIN portsFile.allocations
              /\ portsFile.allocations[a.name] = a.port
              /\ portsFile.allocations[b.name] = b.port

\* the calls for one name came one after the other; only calls for other
\* names overlapped them
SameNameInTurn ==
    \A i \in 1..Len(alog), j \in 1..Len(alog) :
        i < j /\ alog[i].name = alog[j].name => alog[j].seen >= i

\* C5: once allocatePort has returned port p for a name, every call for that
\* name made later returns p, whatever is allocated for other names before,
\* between or concurrently with those calls.
C5_Sticky ==
    SameNameInTurn =>
        \A i \in 1..Len(alog), j \in 1..Len(alog) :
            (i < j /\ alog[i].name = alog[j].name /\ alog[i].port # NoPort)
            => alog[j].port = alog[i].port

\* every port from the call's cursor to the end of its range is in the union
\* of allocated, reserved, engine-managed and descriptor-pinned ports
NothingLeft(c) ==
    \A port \in Cursor(astate[c], arange[c])..RangeEnd(arange[c]) :
        port \in UsedPorts(astate[c], aname[c], appPorts, configsReadable)

\* C6: allocatePort for a name with no allocation, on a range with nothing
\* left from the cursor to the end, fails with the range-exhausted error and
\* leaves the persisted port document unchanged.
C6_ExhaustionChangesNothing ==
    [][\A c \in Allocators :
          (apc[c] = "loaded" /\ apc'[c] = "idle" /\ NothingLeft(c))
          => /\ Len(alog') = Len(alog) + 1
             /\ alog'[Len(alog')].name = aname[c]
             /\ alog'[Len(alog')].port = NoPort
             /\ portsFile' = portsFile]_vars

C6_Witness ==
    /\ alog # <<>>
    /\ alog[Len(alog)].fresh
    /\ alog[Len(alog)].port = NoPort
    /\ alog[Len(alog)].name \notin DOMAIN portsFile.allocations
    /\ portsFile.allocations # <<>>
    /\ portsFile.hasRanges
    /\ portsFile.next["standard"] = RangeEnd("standard") + 1

\* the allocation mapping gives no port to two names
Injective(allocations) ==
    \A n, m \in DOMAIN allocations : n # m => allocations[n] # allocations[m]

\* no call loaded the document before an earlier call had returned
NoOverlap == \A i \in 1..Len(alog) : alog[i].seen = i - 1

\* C31: the port a fresh allocatePort returns is not reserved, not
\* engine-managed, not the fixed port of another readable descriptor and not
\* allocated to another name in the document the call read; after calls
\* that did not overlap, the allocation mapping is injective.
C31_FreshPortUnused ==
    /\ [][\A c \in Allocators :
            (/\ apc[c] = "loaded" /\ apc'[c] = "idle"
             /\ alog'[Len(alog')].port # NoPort)
            => LET port == alog'[Len(alog')].port
               IN /\ port \notin astate[c].reserved
                  /\ port \notin astate[c].engine_managed
                  /\ configsReadable =>
                        \A n \in AppNames \ {aname[c]} :
                            appPorts[n] = NoPort \/ appPorts[n] # port
                  /\ \A n \in DOMAIN astate[c].allocations \ {aname[c]} :
                        astate[c].allocations[n] # port
                  /\ port \in RangePorts(arange[c])]_vars
    /\ [](NoOverlap => Injective(portsFile.allocations))

\* a fresh call passed over a reserved port and a port of another name
C31_Witness ==
    /\ NoOverlap
    /\ Len(alog) >= 2
    /\ alog[Len(alog)].fresh
    /\ alog[Len(alog)].port = StandardStart + 1
    /\ alog[Len(alog)].name = "api"
    /\ portsFile.reserved = {}
    /\ configsReadable
    /\ appPorts["web"] = StandardStart
    /\ Cardinality(DOMAIN portsFile.allocations) = 2

\* C32: a range's cursor never decreases: a successful fresh allocation of
\* port p from a range of a document with ranges leaves that range's cursor
\* at p + 1 and the other ranges' cursors as they were, and p is not below
\* the cursor the document had, so no port below a cursor is handed out again.
C32_CursorNeverDecreases ==
    [][\A c \in Allocators :
          (/\ apc[c] = "loaded" /\ apc'[c] = "idle"
           /\ alog'[Len(alog')].port # NoPort
           /\ portsFile.hasRanges)
          => LET port == alog'[Len(alog')].port
             IN /\ portsFile'.next[arange[c]] = port + 1
                /\ \A r \in Ranges \ {arange[c]} :
                        portsFile'.next[r] = portsFile.next[r]
                /\ \A r \in Ranges : portsFile'.next[r] >= portsFile.next[r]
                /\ port >= portsFile.next[arange[c]]]_vars

----------------------------------------------------------------------------
(* Deployment engine *)

Kinds == {"app", "module", "engine"}

\* the name an attempt records under: config.name (line 269),
\* `${engine.name}/${moduleName}` (line 312), engine.name (line 453)
TargetOf(kind) ==
    CASE kind = "app" -> "api"
      [] kind = "module" -> "wyrt/chat"
      [] OTHER -> "wyrt"

\* The descriptor fields an attempt branches on: deploy.mode ("none": the
\* descriptor has no deploy object), whether deploy.script is set, whether a
\* module has its own repo, a build.command, a deploy.pm2_name
Config(mode, script, repo, build, pm2name) ==
    [mode |-> mode, script |-> script, repo |-> repo, build |-> build,
     pm2name |-> pm2name]

AppConfigs ==
    {Config("pm2", FALSE, TRUE, TRUE, FALSE),
     Config("script", TRUE, TRUE, TRUE, FALSE),
     Config("script", FALSE, TRUE, TRUE, FALSE)}

\* module descriptors that between them take every branch of deployModule
ModuleConfigs ==
    {Config("none", FALSE, TRUE, TRUE, FALSE),
     Config("script", TRUE, FALSE, FALSE, FALSE),
     Config("script", FALSE, FALSE, TRUE, FALSE),
     Config("pm2", FALSE, FALSE, FALSE, TRUE)}

EngineConfigs == {Config("pm2", FALSE, TRUE, TRUE, FALSE)}

\* the name the running attempt records under: the descriptor's own name
\* where the caller's descriptor carries one
Target == IF "name" \in DOMAIN dcfg THEN dcfg.name ELSE TargetOf(dkind)

ConfigsOf(kind) ==
    CASE kind = "app" -> AppConfigs
      [] kind = "module" -> ModuleConfigs
      [] OTHER -> EngineConfigs

\* deployApp with the old process stopped after the build
AppProgramStopLate(cfg) ==
    <<"logToFile", "ensureCloned", "pull", "getShortCommit", "logToFile">>
    \o <<"build">>
    \o (IF cfg.mode # "script" THEN <<"stopProcess">> ELSE <<>>)
    \o (IF cfg.mode = "script" /\ cfg.script
        THEN <<"script">>
        ELSE <<"deleteProcess", "startProcess", "saveProcessList">>)
    \o <<"logComplete", "recordDeployment">>

\* deployApp, lines 198-275: the awaited calls of the try block, in order
AppProgram(cfg) ==
    <<"logToFile", "ensureCloned", "pull", "getShortCommit", "logToFile">>
    \o (IF cfg.mode # "script" THEN <<"stopProcess">> ELSE <<>>)
    \o <<"build">>
    \o (IF cfg.mode = "script" /\ cfg.script
        THEN <<"script">>
        ELSE <<"deleteProcess", "startProcess", "saveProcessList">>)
    \o <<"logComplete", "recordDeployment">>

\* deployModule, lines 319-371
ModuleProgram(cfg) ==
    <<"logToFile">>
    \o (IF cfg.repo THEN <<"ensureCloned", "pull">> ELSE <<>>)
    \o <<"getShortCommit">>
    \o (IF cfg.mode = "script" /\ cfg.script
        THEN <<"script">>
        ELSE IF cfg.build THEN <<"build">> ELSE <<>>)
    \o (IF cfg.mode = "pm2" /\ cfg.pm2name THEN <<"restartProcess">> ELSE <<>>)
    \o <<"logComplete", "recordDeployment">>

\* deployEngine, lines 410-459
EngineProgram(cfg) ==
    <<"logToFile", "ensureCloned", "pull", "getShortCommit", "stopProcess",
      "build", "deleteProcess", "startProcess", "saveProcessList",
      "logComplete", "recordDeployment">>

Program(kind, cfg) ==
    CASE kind = "app" -> AppProgram(cfg)
      [] kind = "module" -> ModuleProgram(cfg)
      [] OTHER -> EngineProgram(cfg)

\* generateDeploymentId (server/index.ts 237-240): the timestamp cut to
\* whole seconds
GenerateDeploymentId(now) == now \div TicksPerSecond

CurrentStep == Program(dkind, dcfg)[dstep]

AtStep(names) ==
    /\ dpc = "try"
    /\ dstep <= Len(Program(dkind, dcfg))
    /\ CurrentStep \in names

\* time passes while git, a shell command or pm2 runs
Elapse == dclock' \in {dclock, Min(dclock + 1, MaxClock)}

\* a write to the log file or to the history store takes no measurable time
NoTime == UNCHANGED dclock

Called1(name) == dcalls' = Append(dcalls, name)

\* the awaited call returned: on to the next statement of the try block
Advance ==
    /\ dstep' = dstep + 1
    /\ UNCHANGED <<dpc, dthrown, derror, dresult>>

\* the awaited call threw: lines 283-285 (and 379-381, 467-469)
Throws(message) ==
    /\ dpc' = "catch"
    /\ dthrown' = CurrentStep
    /\ derror' = message
    /\ dduration' = dclock' - dstart
    /\ UNCHANGED <<dstep, dresult>>

\* the promise the caller holds is rejected
Rejects ==
    /\ dpc' = "rejected"
    /\ dresult' = [kind |-> "rejected"]

InitDeploy ==
    /\ IdleDeploy
    /\ deployments = <<>>
    /\ rcallers = {}
    /\ rlimit = 0
    /\ rpc = <<>>
    /\ rapp = <<>>
    /\ rrecord = <<>>
    /\ rstate = <<>>
    /\ rcount = 0
    /\ rseen = <<>>
    /\ rlog = <<>>

\* lines 190-192 (311-314, 403-405): a deployment is called, for a descriptor
\* with the given port
DeployBegin(kind, cfg, port) ==
    /\ dpc \in {"idle", "returned", "rejected"}
    /\ dattempts < MaxAttempts
    /\ dattempts' = dattempts + 1
    /\ dkind' = kind
    /\ dcfg' = cfg
    /\ did' = GenerateDeploymentId(dclock)
    /\ dstart' = dclock
    /\ dcalls' = <<>>
    /\ dcommit' = ""
    /\ dbuild' = -1
    /\ dthrown' = ""
    /\ derror' = ""
    /\ dduration' = 0
    /\ dresult' = [kind |-> "none"]
    /\ dbefore' = deployments
    /\ dstep' = 1
    /\ dpc' = "logdir"
    /\ dport' = port
    /\ denv' = NoPort
    /\ UNCHANGED <<deployments, dclock>>

\* a deployment is called by some caller, for an application descriptor with
\* a port or without
DeployStart(kind, cfg) ==
    /\ UNCHANGED notDeploy
    /\ \E port \in (IF kind = "app" THEN {NoPort, StandardStart} ELSE {NoPort}) :
            DeployBegin(kind, cfg, port)

\* lines 195 (316, 407) and 152-158: ensureLogDir is awaited before the try
\* block is entered
EnsureLogDir ==
    /\ UNCHANGED notDeploy
    /\ UNCHANGED <<dport, denv>>
    /\ dpc = "logdir"
    /\ Called1("ensureLogDir")
    /\ NoTime
    /\ \/ /\ dpc' = "try"
          /\ UNCHANGED dresult
       \/ Rejects
    /\ UNCHANGED <<deployments, dkind, dcfg, dstep, dstart, did, dcommit, dbuild,
                   dthrown, derror, dduration, dbefore, dattempts>>

\* lines 161-164: logToFile appends a line to the attempt's log file.  The
\* duration of a successful attempt is taken at line 265, before the
\* "complete" line is written.
LogToFile ==
    /\ UNCHANGED notDeploy
    /\ UNCHANGED <<dport, denv>>
    /\ AtStep({"logToFile", "logComplete"})
    /\ Called1(CurrentStep)
    /\ NoTime
    /\ \/ /\ Advance
          /\ dduration' = IF CurrentStep = "logComplete" THEN dclock - dstart
                          ELSE dduration
       \/ Throws("log write failed")
    /\ UNCHANGED <<deployments, dkind, dcfg, dstart, did, dcommit, dbuild, dbefore,
                   dattempts>>

\* git.ensureCloned, git.pull (fetch + reset --hard), git.getShortCommit
\* (server/index.ts 457-515): each throws when git fails
GitCall ==
    /\ UNCHANGED notDeploy
    /\ UNCHANGED <<dport, denv>>
    /\ AtStep({"ensureCloned", "pull", "getShortCommit"})
    /\ Called1(CurrentStep)
    /\ Elapse
    /\ \/ /\ Advance
          /\ dcommit' = IF CurrentStep = "getShortCommit" THEN "a1b2c3d" ELSE dcommit
          /\ UNCHANGED dduration
       \/ /\ Throws("git failed")
          /\ UNCHANGED dcommit
    /\ UNCHANGED <<deployments, dkind, dcfg, dstart, did, dbuild, dbefore, dattempts>>

\* pm2.stopProcess and pm2.deleteProcess (lines 70-90) swallow every error
SupervisorQuiet ==
    /\ UNCHANGED notDeploy
    /\ UNCHANGED <<dport, denv>>
    /\ AtStep({"stopProcess", "deleteProcess"})
    /\ Called1(CurrentStep)
    /\ Elapse
    /\ Advance
    /\ UNCHANGED <<deployments, dkind, dcfg, dstart, did, dcommit, dbuild, dduration,
                   dbefore, dattempts>>

\* lines 250-254: processEnv gets PORT when config.port is set; deployEngine
\* hands startProcess no env (lines 441-445)
ProcessEnvPort ==
    IF CurrentStep = "startProcess" /\ dkind = "app" /\ dport # NoPort
    THEN dport
    ELSE denv

\* pm2.startProcess, pm2.saveProcessList, pm2.restartProcess (lines 40-95)
\* throw when pm2 fails
SupervisorCall ==
    /\ UNCHANGED notDeploy
    /\ AtStep({"startProcess", "saveProcessList", "restartProcess"})
    /\ Called1(CurrentStep)
    /\ denv' = ProcessEnvPort
    /\ UNCHANGED dport
    /\ Elapse
    /\ \/ /\ Advance
          /\ UNCHANGED dduration
       \/ Throws("pm2 failed")
    /\ UNCHANGED <<deployments, dkind, dcfg, dstart, did, dcommit, dbuild, dbefore,
                   dattempts>>

\* runCommand, lines 167-187: the command runs under bash with reject: false,
\* so its exit code is not looked at; its output is appended to the log
\* file, which throws when the log write fails
RunCommand ==
    /\ UNCHANGED notDeploy
    /\ UNCHANGED <<dport, denv>>
    /\ AtStep({"build", "script"})
    /\ Called1(CurrentStep)
    /\ Elapse
    /\ \E exit \in {0, 1} :
          dbuild' = IF CurrentStep = "build" THEN exit ELSE dbuild
    /\ \/ /\ Advance
          /\ UNCHANGED dduration
       \/ Throws("log write failed")
    /\ UNCHANGED <<deployments, dkind, dcfg, dstart, did, dcommit, dbefore, dattempts>>

\* runCommand, line 176: execa is given no timeout, so the await of a
\* command that never exits never returns
RunCommandNeverExits ==
    /\ UNCHANGED notDeploy
    /\ UNCHANGED <<dport, denv>>
    /\ AtStep({"build", "script"})
    /\ Called1(CurrentStep)
    /\ dclock' = MaxClock
    /\ dpc' = "hung"
    /\ UNCHANGED <<deployments, dkind, dcfg, dstep, dstart, did, dcommit, dbuild,
                   dthrown, derror, dduration, dresult, dbefore, dattempts>>

\* the record of lines 269-275 (365-371, 453-459), without its timestamp,
\* which nothing reads
SuccessRecord ==
    [id |-> did, commit |-> dcommit, status |-> "success",
     duration_ms |-> dduration]

\* the failed record with the commit captured before the failure
FailedRecordWithCommit ==
    [id |-> did, commit |-> dcommit, status |-> "failed", duration_ms |-> dduration,
     error |-> derror]

\* the record of lines 289-295 (385-391, 473-479)
FailedRecord ==
    [id |-> did, status |-> "failed", duration_ms |-> dduration,
     error |-> derror]

\* lines 268-282: the success record is written and the result returned; a
\* failing history store throws into the catch block
RecordSuccess ==
    /\ UNCHANGED notDeploy
    /\ UNCHANGED <<dport, denv>>
    /\ AtStep({"recordDeployment"})
    /\ Called1(CurrentStep)
    /\ NoTime
    /\ \/ /\ deployments' = RecordInto(deployments, Target, SuccessRecord)
          /\ dpc' = "returned"
          /\ dresult' = [kind |-> "returned", success |-> TRUE, deploymentId |-> did,
                         duration |-> dduration, commit |-> dcommit]
          /\ UNCHANGED <<dstep, dthrown, derror, dduration>>
       \/ /\ Throws("history store failed")
          /\ UNCHANGED deployments
    /\ UNCHANGED <<dkind, dcfg, dstart, did, dcommit, dbuild, dbefore, dattempts>>

\* line 287 (383, 471): the catch block writes the failure to the log file;
\* nothing catches a throw from here
CatchLog ==
    /\ UNCHANGED notDeploy
    /\ UNCHANGED <<dport, denv>>
    /\ dpc = "catch"
    /\ Called1("catch:logToFile")
    /\ NoTime
    /\ \/ /\ dpc' = "catchrecord"
          /\ UNCHANGED dresult
       \/ Rejects
    /\ UNCHANGED <<deployments, dkind, dcfg, dstep, dstart, did, dcommit, dbuild,
                   dthrown, derror, dduration, dbefore, dattempts>>

\* lines 289-302 (385-398, 473-486): the failed record is written and the
\* failure result returned; nothing catches a throw of the history store
CatchRecord ==
    /\ UNCHANGED notDeploy
    /\ UNCHANGED <<dport, denv>>
    /\ dpc = "catchrecord"
    /\ Called1("catch:recordDeployment")
    /\ NoTime
    /\ \/ /\ deployments' = RecordInto(deployments, Target, FailedRecord)
          /\ dpc' = "returned"
          /\ dresult' = [kind |-> "returned", success |-> FALSE, deploymentId |-> did,
                         duration |-> dduration, error |-> derror]
       \/ /\ Rejects
          /\ UNCHANGED deployments
    /\ UNCHANGED <<dkind, dcfg, dstep, dstart, did, dcommit, dbuild, dthrown, derror,
                   dduration, dbefore, dattempts>>

NextDeploy ==
    \/ \E kind \in Kinds : \E cfg \in ConfigsOf(kind) : DeployStart(kind, cfg)
    \/ EnsureLogDir
    \/ LogToFile
    \/ GitCall
    \/ SupervisorQuiet
    \/ SupervisorCall
    \/ RunCommand
    \/ RunCommandNeverExits
    \/ RecordSuccess
    \/ CatchLog
    \/ CatchRecord

DeployInit ==
    InitDeploy /\ InitQueue /\ IdlePorts /\ IdleWebhook /\ IdleCli

SpecDeploy == DeployInit /\ [][NextDeploy]_vars

\* every awaited call that can return or throw does so
DeployFairness ==
    /\ WF_vars(EnsureLogDir)
    /\ WF_vars(LogToFile)
    /\ WF_vars(GitCall)
    /\ WF_vars(SupervisorQuiet)
    /\ WF_vars(SupervisorCall)
    /\ WF_vars(RunCommand)
    /\ WF_vars(RecordSuccess)
    /\ WF_vars(CatchLog)
    /\ WF_vars(CatchRecord)

SpecDeployFair == DeployInit /\ [][NextDeploy]_vars /\ DeployFairness

HistoryIn(doc, name) == IF name \in DOMAIN doc THEN doc[name].history ELSE <<>>

\* the attempt is over: the caller has a result or a rejection
AttemptOver == dpc \in {"returned", "rejected"}

\* the calls of the attempt that are not the catch block's
PhaseCalls == SelectSeq(dcalls, LAMBDA c : c \notin {"catch:logToFile", "catch:recordDeployment"})

\* the attempt added exactly one record to its target's history, a failed one
\* carrying the error message and the elapsed duration
OneFailedRecordAdded ==
    LET now == HistoryIn(deployments, Target)
        before == HistoryIn(dbefore, Target)
    IN /\ now # <<>>
       /\ now = Slice0(<<now[1]>> \o before, HistoryCap)
       /\ now[1].status = "failed"
       /\ now[1].id = did
       /\ now[1].error = derror
       /\ now[1].error # ""
       /\ now[1].duration_ms = dduration
       /\ now[1].duration_ms >= 0

\* C3: a deployment of an application whose build command exits non-zero
\* runs neither the deploy script nor the supervisor's delete/start/persist,
\* and ends with exactly one history record, failed, with a non-empty error
\* and a duration >= 0.
C3_BuildFailureRecorded ==
    (dkind = "app" /\ dbuild = 1) =>
        /\ \A i \in 1..Len(dcalls) :
              dcalls[i] \notin {"script", "deleteProcess", "startProcess",
                                "saveProcessList"}
        /\ (AttemptOver => OneFailedRecordAdded)

\* C7: deployApp, deployModule and deployEngine never throw to their caller:
\* whatever collaborator step fails, the call returns a DeployResult.
C7_NeverThrows ==
    /\ dresult.kind # "rejected"
    /\ (AttemptOver => dresult.kind = "returned" /\ dresult.success \in BOOLEAN)

\* C8: when clone, fetch/reset, commit lookup, supervisor start or persist
\* throws, no later phase of the attempt runs and the phase is not tried
\* again, exactly one failed record with the error message and the elapsed
\* duration is added to the target's history, no success record is written,
\* and the result has success = false.
C8_PhaseFailureRecorded ==
    (/\ dthrown \in {"ensureCloned", "pull", "getShortCommit", "startProcess",
                     "saveProcessList"}
     /\ AttemptOver)
    => /\ PhaseCalls = <<"ensureLogDir">> \o SubSeq(Program(dkind, dcfg), 1, dstep)
       /\ Program(dkind, dcfg)[dstep] = dthrown
       /\ Occurrences(dcalls, dthrown) = 1
       /\ OneFailedRecordAdded
       /\ dresult.kind = "returned"
       /\ dresult.success = FALSE

\* C13: for an application descriptor with no fixed port, the first
\* deployment allocates a port from the standard range (3001 when unused) and
\* the process it starts gets that port in PORT.
C13_PortInjected ==
    (/\ dkind = "app"
     /\ dport = NoPort
     /\ dattempts = 1
     /\ \E i \in 1..Len(dcalls) : dcalls[i] = "startProcess")
    => denv = StandardStart

\* the git, build, supervisor and history calls
PhaseNames ==
    {"ensureCloned", "pull", "stopProcess", "build", "script", "deleteProcess",
     "startProcess", "restartProcess", "saveProcessList", "recordDeployment"}

\* the attempt returned a successful result
Succeeded ==
    /\ dpc = "returned"
    /\ dresult.kind = "returned"
    /\ dresult.success

\* C28: a successful deployment of a pm2-mode application makes these calls
\* in this order, each once: clone if missing, fetch and reset, stop the old
\* process, build, delete the old process, start the new one, persist the
\* supervisor state, record success.
C28_Pm2CallOrder ==
    (Succeeded /\ dkind = "app" /\ dcfg.mode = "pm2") =>
        /\ SelectSeq(dcalls, LAMBDA c : c \in PhaseNames)
             = <<"ensureCloned", "pull", "stopProcess", "build", "deleteProcess",
                 "startProcess", "saveProcessList", "recordDeployment">>
        /\ Len(HistoryIn(deployments, Target)) = Len(HistoryIn(dbefore, Target)) + 1
        /\ HistoryIn(deployments, Target)[1].status = "success"

\* a pm2-mode application was deployed with success
C28_Witness ==
    /\ Succeeded
    /\ dkind = "app"
    /\ dcfg.mode = "pm2"
    /\ dbuild = 0
    /\ denv = StandardStart

\* C29: the deployment of a script-mode application makes no supervisor
\* call: no stop, delete, start or persist, also for a descriptor that names
\* no script.
C29_ScriptModeNoSupervisor ==
    (dkind = "app" /\ dpc # "idle" /\ dcfg.mode = "script") =>
        \A i \in 1..Len(dcalls) :
            dcalls[i] \notin {"stopProcess", "deleteProcess", "startProcess",
                              "saveProcessList"}

\* the records of all histories
AllRecords ==
    UNION {{deployments[n].history[i] : i \in 1..Len(deployments[n].history)} :
            n \in DOMAIN deployments}

\* C33: every history record with status success carries a commit hash and
\* no error text; every record with status failed carries a non-empty error
\* text and no commit hash; for applications, modules and engines alike.
C33_RecordFields ==
    \A r \in AllRecords :
        /\ r.status \in {"success", "failed"}
        /\ r.status = "success" =>
                /\ "commit" \in DOMAIN r
                /\ r.commit # ""
                /\ "error" \notin DOMAIN r
        /\ r.status = "failed" =>
                /\ "error" \in DOMAIN r
                /\ r.error # ""
                /\ "commit" \notin DOMAIN r

\* a module's history holds a failed record of an attempt that had captured
\* its commit, on top of a success record
C33_Witness ==
    /\ dkind = "module"
    /\ AttemptOver
    /\ dcommit # ""
    /\ Len(HistoryIn(deployments, Target)) = 2
    /\ HistoryIn(deployments, Target)[1].status = "failed"
    /\ HistoryIn(deployments, Target)[2].status = "success"

\* C34: two attempts for the same target never get the same deployment id,
\* also when they start within the same second: no two records of a
\* target's history share an id.
C34_DistinctIds ==
    \A n \in DOMAIN deployments :
        \A i, j \in 1..Len(deployments[n].history) :
            i # j => deployments[n].history[i].id # deployments[n].history[j].id

\* C17: a build command that runs past the build timeout is killed and the
\* attempt recorded as failed: an attempt whose build command never exits on
\* its own still ends, with one failed record.
C17_BuildTimeout ==
    (dpc = "hung" /\ CurrentStep = "build") ~> (AttemptOver /\ OneFailedRecordAdded)

----------------------------------------------------------------------------
(* Descriptor files: loadAppConfigs, loadAppConfig, loadEngineConfigs,      *)
(* loadEngineConfig (server/index.ts 285-374)                               *)

\* what parsing a file gives: an error (no YAML, or rejected by the schema)
\* or a descriptor.  Of a descriptor the model keeps the name, the port (0:
\* none), whether it has a domain, and an engine's modules.
Malformed == [ok |-> FALSE]

AppYaml(name, port, domain) ==
    [ok |-> TRUE, name |-> name, port |-> port, domain |-> domain, modules |-> <<>>]

ModuleYaml(name, domain) == [name |-> name, domain |-> domain]

EngineYaml(name, modules) ==
    [ok |-> TRUE, name |-> name, port |-> NoPort, domain |-> FALSE, modules |-> modules]

\* a directory entry: file name without extension, extension, parse result
File(file, ext, content) == [file |-> file, ext |-> ext, content |-> content]

\* no file of that name
Absent(file) == File(file, "absent", Malformed)

\* the entries readdir gives for the candidates that are there
Directory(candidates) == SelectSeq(candidates, LAMBDA f : f.ext # "absent")

YamlExtensions == {"yaml", "yml"}

\* an empty Map; a Map is the sequence of its values in insertion order
NoConfigs == [configs |-> <<>>, reported |-> <<>>]

\* Map.set: the value under an existing key is replaced in place, a new key
\* is added at the end
MapSet(map, config) ==
    IF \E i \in 1..Len(map) : map[i].name = config.name
    THEN [i \in 1..Len(map) |-> IF map[i].name = config.name THEN config ELSE map[i]]
    ELSE Append(map, config)

\* the loop body with the error leaving the loop: what was loaded is lost
LoadFileAborting(loaded, f) ==
    IF f.ext \notin YamlExtensions THEN loaded
    ELSE IF f.content.ok
    THEN [loaded EXCEPT !.configs = MapSet(@, f.content)]
    ELSE [configs |-> <<>>, reported |-> Append(loaded.reported, f.file)]

\* the body of the loop, lines 313-324 (349-360): other extensions are passed
\* over, a file that loads is set under its descriptor's name, the error of
\* one that does not is caught and printed
LoadFile(loaded, f) ==
    IF f.ext \notin YamlExtensions THEN loaded
    ELSE IF f.content.ok
    THEN [loaded EXCEPT !.configs = MapSet(@, f.content)]
    ELSE [loaded EXCEPT !.reported = Append(@, f.file)]

\* the loop of lines 312-325 (348-361)
RECURSIVE LoadFiles(_, _)
LoadFiles(files, loaded) ==
    IF files = <<>> THEN loaded
    ELSE LoadFiles(Tail(files), LoadFile(loaded, Head(files)))

\* loadAppConfigs, lines 305-327, and loadEngineConfigs, lines 341-363
LoadConfigs(files) == LoadFiles(files, NoConfigs)

\* loadAppConfig, lines 330-338, and loadEngineConfig, lines 366-374: the
\* file is looked up by the name asked for, .yaml before .yml; no file gives
\* null, a file that does not load makes the call throw
LoadConfig(files, name) ==
    LET at(ext) == SelectSeq(files, LAMBDA f : f.file = name /\ f.ext = ext)
        path == IF at("yaml") # <<>> THEN at("yaml") ELSE at("yml")
    IN IF path = <<>> THEN [found |-> FALSE, threw |-> FALSE]
       ELSE IF path[1].content.ok
       THEN [found |-> TRUE, threw |-> FALSE, config |-> path[1].content]
       ELSE [found |-> FALSE, threw |-> TRUE]

ConfigDir(initialized, apps, engines) ==
    [initialized |-> initialized, apps |-> apps, engines |-> engines]

\* what a file of apps/ may be: not there, a descriptor under either
\* extension (with a port or without), a file that does not load, or a
\* descriptor in a file that is no YAML file.  Every descriptor is in the
\* file of its own name, as the add command writes it.
AppFiles(name) ==
    {Absent(name),
     File(name, "yaml", AppYaml(name, NoPort, TRUE)),
     File(name, "yml", AppYaml(name, StandardStart, FALSE)),
     File(name, "yaml", Malformed),
     File(name, "json", AppYaml(name, NoPort, FALSE))}

EngineFiles(name) ==
    {Absent(name),
     File(name, "yaml", EngineYaml(name, <<ModuleYaml("chat", TRUE)>>)),
     File(name, "yml", Malformed)}

InitConfig ==
    /\ \E a \in AppFiles("api"), b \in AppFiles("blog"), w \in AppFiles("web"),
          c \in EngineFiles("core"), y \in EngineFiles("wyrt") :
          cfiles = ConfigDir(TRUE, Directory(<<a, b, w>>), Directory(<<c, y>>))
    /\ cpc = "idle"
    /\ ccmd = [cmd |-> "none"]
    /\ cexit = -1
    /\ cerror = ""
    /\ cloaded = [made |-> FALSE]
    /\ sapps = <<>>
    /\ stodo = <<>>
    /\ nginxFiles = {}
    /\ resolved = [made |-> FALSE]

Loaded(dir, files, result) ==
    [made |-> TRUE, dir |-> dir, files |-> files, configs |-> result.configs,
     reported |-> result.reported]

\* a call of loadAppConfigs
LoadAppConfigsCall ==
    /\ UNCHANGED notCli
    /\ ~cloaded.made
    /\ cloaded' = Loaded("apps", cfiles.apps, LoadConfigs(cfiles.apps))
    /\ UNCHANGED <<cfiles, cpc, ccmd, cexit, cerror, sapps, stodo, nginxFiles, resolved>>

\* a call of loadEngineConfigs
LoadEngineConfigsCall ==
    /\ UNCHANGED notCli
    /\ ~cloaded.made
    /\ cloaded' = Loaded("engines", cfiles.engines, LoadConfigs(cfiles.engines))
    /\ UNCHANGED <<cfiles, cpc, ccmd, cexit, cerror, sapps, stodo, nginxFiles, resolved>>

NextConfig ==
    \/ LoadAppConfigsCall
    \/ LoadEngineConfigsCall

ConfigInit ==
    InitConfig /\ InitQueue /\ IdleHistory /\ IdlePorts /\ IdleDeploy /\ IdleWebhook

SpecConfig == ConfigInit /\ [][NextConfig]_vars

\* the YAML files of a directory that load, and those that do not
WellFormed(files) ==
    {i \in 1..Len(files) : files[i].ext \in YamlExtensions /\ files[i].content.ok}

MalformedIn(files) ==
    {i \in 1..Len(files) : files[i].ext \in YamlExtensions /\ ~files[i].content.ok}

\* C27: loading a directory in which some files are malformed returns
\* exactly the descriptors of the well-formed files; every malformed file is
\* reported and skipped, and the descriptors of its siblings, before and
\* after it, are all returned.
C27_MalformedSkipped ==
    cloaded.made =>
        LET files == cloaded.files
        IN /\ {cloaded.configs[i] : i \in 1..Len(cloaded.configs)}
                = {files[i].content : i \in WellFormed(files)}
           /\ Len(cloaded.configs) = Cardinality(WellFormed(files))
           /\ {cloaded.reported[i] : i \in 1..Len(cloaded.reported)}
                = {files[i].file : i \in MalformedIn(files)}
           /\ Len(cloaded.reported) = Cardinality(MalformedIn(files))

\* a malformed file between two well-formed ones
C27_Witness ==
    /\ cloaded.made
    /\ cloaded.dir = "apps"
    /\ Len(cloaded.files) = 3
    /\ WellFormed(cloaded.files) = {1, 3}
    /\ MalformedIn(cloaded.files) = {2}
    /\ Len(cloaded.configs) = 2

----------------------------------------------------------------------------
(* Command line: shyp deploy <name> [--module <module>] (commands/deploy.ts) *)

\* the names and --module options a command is run with, "" for no option
CliNames == {"api", "wyrt", "nope"}

ModuleOptions == {"", "chat", "mail"}

\* the descriptor a deployment function is called with: the fields the
\* attempt branches on and the name it records under
Named(cfg, name) ==
    [mode |-> cfg.mode, script |-> cfg.script, repo |-> cfg.repo, build |-> cfg.build,
     pm2name |-> cfg.pm2name, name |-> name]

NotResolved(error, threw) == [kind |-> "none", error |-> error, threw |-> threw]

ResolvedAs(kind, config, name) ==
    [kind |-> kind, config |-> config, name |-> name]

\* lines 87-99: deployEngineModule looks the engine up, then the module in it
ResolveModule(dir, name, module) ==
    LET engine == LoadConfig(dir.engines, name)
    IN IF engine.threw THEN NotResolved("", TRUE)
       ELSE IF ~engine.found THEN NotResolved("Engine not found", FALSE)
       ELSE IF \A i \in 1..Len(engine.config.modules) :
                    engine.config.modules[i].name # module
       THEN NotResolved("Module not found", FALSE)
       ELSE ResolvedAs("module", engine.config, ModuleTarget(engine.config.name, module))

\* the lookup with the engine namespace asked first
ResolveEngineFirst(dir, name) ==
    LET app == LoadConfig(dir.apps, name)
        engine == LoadConfig(dir.engines, name)
    IN IF engine.threw THEN NotResolved("", TRUE)
       ELSE IF engine.found THEN ResolvedAs("engine", engine.config, engine.config.name)
       ELSE IF app.threw THEN NotResolved("", TRUE)
       ELSE IF app.found THEN ResolvedAs("app", app.config, app.config.name)
       ELSE NotResolved("App or engine not found", FALSE)

\* lines 23-39: the application namespace is asked first, the engine
\* namespace only when it has no file of that name
Resolve(dir, name) ==
    LET app == LoadConfig(dir.apps, name)
        engine == LoadConfig(dir.engines, name)
    IN IF app.threw THEN NotResolved("", TRUE)
       ELSE IF app.found THEN ResolvedAs("app", app.config, app.config.name)
       ELSE IF engine.threw THEN NotResolved("", TRUE)
       ELSE IF engine.found THEN ResolvedAs("engine", engine.config, engine.config.name)
       ELSE NotResolved("App or engine not found", FALSE)

\* the fields of the descriptors in the directory that a deployment
\* branches on
DeployFields(kind) ==
    CASE kind = "app" -> Config("pm2", FALSE, TRUE, TRUE, FALSE)
      [] kind = "module" -> Config("none", FALSE, TRUE, TRUE, FALSE)
      [] OTHER -> Config("pm2", FALSE, TRUE, TRUE, FALSE)

\* process.exit(code) after log.error(error)
Exits(code, error) ==
    /\ cpc' = "exited"
    /\ cexit' = code
    /\ cerror' = error

\* a load threw: the command's promise is rejected and the process ends
\* with a non-zero code
CommandRejects ==
    /\ cpc' = "rejected"
    /\ cexit' = 1
    /\ cerror' = ""

InitCli ==
    /\ \/ cfiles = ConfigDir(FALSE, <<>>, <<>>)
       \/ \E a \in {Absent("api"), File("api", "yaml", AppYaml("api", NoPort, FALSE))},
             w \in {Absent("wyrt"), File("wyrt", "yml", AppYaml("wyrt", StandardStart, FALSE)),
                    File("wyrt", "yaml", Malformed)},
             e \in {Absent("wyrt"),
                    File("wyrt", "yaml", EngineYaml("wyrt", <<ModuleYaml("chat", FALSE)>>)),
                    File("wyrt", "yaml", Malformed)} :
             cfiles = ConfigDir(TRUE, Directory(<<a, w>>), Directory(<<e>>))
    /\ cpc = "idle"
    /\ ccmd = [cmd |-> "none"]
    /\ cexit = -1
    /\ cerror = ""
    /\ cloaded = [made |-> FALSE]
    /\ sapps = <<>>
    /\ stodo = <<>>
    /\ nginxFiles = {}
    /\ resolved = [made |-> FALSE]

\* deployCommand, lines 6-40, and the first lines of deployAppByConfig,
\* deployEngineByConfig and deployEngineModule, up to the call of the
\* deployment function
DeployCommand(name, module) ==
    /\ UNCHANGED notDeployNorCli
    /\ cpc = "idle"
    /\ ccmd' = [cmd |-> "deploy", name |-> name, module |-> module]
    /\ IF ~cfiles.initialized
       THEN /\ Exits(1, "Shyp is not initialized")
            /\ UNCHANGED <<deployments, dvars>>
       ELSE LET found == IF module # "" THEN ResolveModule(cfiles, name, module)
                         ELSE Resolve(cfiles, name)
            IN IF found.kind = "none"
               THEN /\ IF found.threw THEN CommandRejects ELSE Exits(1, found.error)
                    /\ UNCHANGED <<deployments, dvars>>
               ELSE /\ DeployBegin(found.kind, Named(DeployFields(found.kind), found.name),
                                   found.config.port)
                    /\ cpc' = "deploying"
                    /\ UNCHANGED <<cexit, cerror>>
    /\ UNCHANGED <<cfiles, cloaded, sapps, stodo, nginxFiles, resolved>>

\* lines 49-61 (71-84, 109-122): the deployment function returned; a failed
\* result is reported and the process exits with 1
CommandReports ==
    /\ UNCHANGED notCli
    /\ cpc = "deploying"
    /\ dpc \in {"returned", "rejected"}
    /\ IF dpc = "rejected" THEN CommandRejects
       ELSE IF dresult.success THEN Exits(0, "")
       ELSE Exits(1, derror)
    /\ UNCHANGED <<cfiles, ccmd, cloaded, sapps, stodo, nginxFiles, resolved>>

NextCli ==
    \/ \E name \in CliNames, module \in ModuleOptions : DeployCommand(name, module)
    \/ CommandReports
    \/ EnsureLogDir
    \/ LogToFile
    \/ GitCall
    \/ SupervisorQuiet
    \/ SupervisorCall
    \/ RunCommand
    \/ RunCommandNeverExits
    \/ RecordSuccess
    \/ CatchLog
    \/ CatchRecord

CliInit == InitCli /\ InitDeploy /\ InitQueue /\ IdlePorts /\ IdleWebhook

SpecCli == CliInit /\ [][NextCli]_vars

\* a namespace has a descriptor of the name
Exists(files, name) ==
    \E i \in 1..Len(files) : /\ files[i].file = name
                             /\ files[i].ext \in YamlExtensions
                             /\ files[i].content.ok

\* a namespace has no file of the name
NoFile(files, name) ==
    \A i \in 1..Len(files) : files[i].file # name \/ files[i].ext \notin YamlExtensions

\* the command is a deploy without --module on an initialized host
PlainDeploy ==
    /\ ccmd.cmd = "deploy"
    /\ ccmd.module = ""
    /\ cfiles.initialized

\* C22: deploy without --module resolves the name in the application
\* namespace first and in the engine namespace second: where both have it,
\* only the application is deployed; where neither has it, the command
\* reports not found, exits non-zero and makes no git, build, supervisor or
\* history call.
C22_AppBeforeEngine ==
    PlainDeploy =>
        /\ Exists(cfiles.apps, ccmd.name) =>
                /\ dattempts = 1
                /\ dkind = "app"
                /\ Target = ccmd.name
        /\ (NoFile(cfiles.apps, ccmd.name) /\ Exists(cfiles.engines, ccmd.name)) =>
                /\ dattempts = 1
                /\ dkind = "engine"
                /\ Target = ccmd.name
        /\ (NoFile(cfiles.apps, ccmd.name) /\ NoFile(cfiles.engines, ccmd.name)) =>
                /\ cpc = "exited"
                /\ cexit = 1
                /\ cerror = "App or engine not found"
                /\ dattempts = 0
                /\ dcalls = <<>>
                /\ deployments = <<>>

\* the name is in both namespaces and the application's deployment went
\* through to its history record
C22_Witness ==
    /\ PlainDeploy
    /\ Exists(cfiles.apps, ccmd.name)
    /\ Exists(cfiles.engines, ccmd.name)
    /\ cpc = "exited"
    /\ cexit = 0
    /\ ccmd.name \in DOMAIN deployments

----------------------------------------------------------------------------
(* Commands and working path of a deployment (lib/pm2.ts 221-260, 322-325,  *)
(* 431-446)                                                                 *)

Runtimes == {"npm", "bun", "pnpm", "yarn"}

\* RUNTIME_COMMANDS of the application schema
RuntimeCommands(runtime) ==
    CASE runtime = "npm" ->
            [build |-> "npm ci && npm run build", start |-> "npm start"]
      [] runtime = "bun" ->
            [build |-> "bun install --frozen-lockfile && bun run build",
             start |-> "bun start"]
      [] runtime = "pnpm" ->
            [build |-> "pnpm install --frozen-lockfile && pnpm run build",
             start |-> "pnpm start"]
      [] OTHER ->
            [build |-> "yarn install --frozen-lockfile && yarn run build",
             start |-> "yarn start"]

\* build.command and start.command of a descriptor, "" where it has none
CommandOverrides == {"", "make", "node server.js"}

\* the descriptor fields the commands could depend on
CommandConfig(kind, runtime, build, start) ==
    [kind |-> kind, runtime |-> runtime, build |-> build, start |-> start]

\* the command handed to runCommand for the build, "" where none is run:
\* line 222 for an application, line 432 for an engine server, lines 347-349
\* for a module
BuildCommand(config) ==
    CASE config.kind = "app" ->
            IF config.build # "" THEN config.build ELSE "npm ci && npm run build"
      [] config.kind = "engine" ->
            IF config.build # "" THEN config.build ELSE "npm ci"
      [] OTHER -> config.build

\* the command handed to pm2.startProcess, "" where none is: line 240 for an
\* application, line 439 for an engine server; a module's process is
\* restarted under its name (line 359)
StartCommand(config) ==
    CASE config.kind \in {"app", "engine"} ->
            IF config.start # "" THEN config.start ELSE "npm start"
      [] OTHER -> ""

\* paths as sequences of segments; "" of the descriptors is <<>> here
EngineServerPath == <<"srv", "wyrt">>

ModulePaths == {<<>>, <<"srv", "chat">>}

ModuleSubpaths == {<<>>, <<"modules", "chat">>}

\* path.join
Join(a, b) == a \o b

\* lines 323-325: modulePath
ModulePath(engineServerPath, module) ==
    IF module.subpath # <<>> THEN Join(engineServerPath, module.subpath)
    ELSE engineServerPath

InitDefaults ==
    /\ cfiles = <<>>
    /\ cpc = "idle"
    /\ ccmd = [cmd |-> "none"]
    /\ cexit = -1
    /\ cerror = ""
    /\ cloaded = [made |-> FALSE]
    /\ sapps = <<>>
    /\ stodo = <<>>
    /\ nginxFiles = {}
    /\ resolved = [made |-> FALSE]

\* a deployment comes to its build and start commands
CommandsResolved(config) ==
    /\ UNCHANGED notCli
    /\ ~resolved.made
    /\ resolved' = [made |-> TRUE, what |-> "commands", config |-> config,
                    build |-> BuildCommand(config), start |-> StartCommand(config)]
    /\ UNCHANGED <<cfiles, cpc, ccmd, cexit, cerror, cloaded, sapps, stodo, nginxFiles>>

\* deployModule comes to its working path
PathResolved(module) ==
    /\ UNCHANGED notCli
    /\ ~resolved.made
    /\ resolved' = [made |-> TRUE, what |-> "path", module |-> module,
                    path |-> ModulePath(EngineServerPath, module)]
    /\ UNCHANGED <<cfiles, cpc, ccmd, cexit, cerror, cloaded, sapps, stodo, nginxFiles>>

NextDefaults ==
    \/ \E kind \in Kinds, runtime \in Runtimes, build \in CommandOverrides,
          start \in CommandOverrides :
            CommandsResolved(CommandConfig(kind, runtime, build, start))
    \/ \E path \in ModulePaths, subpath \in ModuleSubpaths :
            PathResolved([path |-> path, subpath |-> subpath])

DefaultsInit ==
    InitDefaults /\ InitQueue /\ IdleHistory /\ IdlePorts /\ IdleDeploy /\ IdleWebhook

SpecDefaults == DefaultsInit /\ [][NextDefaults]_vars

\* C24: with runtime R and no override, the build command executed is R's
\* default build command and the start command handed to the supervisor is
\* R's default start command; a build.command or start.command in the
\* descriptor replaces the command it names and no other.
C24_RuntimeDefaults ==
    (resolved.made /\ resolved.what = "commands") =>
        LET config == resolved.config
        IN /\ resolved.build = IF config.build # "" THEN config.build
                               ELSE RuntimeCommands(config.runtime).build
           /\ config.kind \in {"app", "engine"} =>
                resolved.start = IF config.start # "" THEN config.start
                                 ELSE RuntimeCommands(config.runtime).start

\* C25: deployModule works in the module's own path where the descriptor
\* sets one, else in the engine server path joined with the module's subpath
\* where it sets one, else in the engine server path.
C25_ModulePath ==
    (resolved.made /\ resolved.what = "path") =>
        resolved.path =
            IF resolved.module.path # <<>> THEN resolved.module.path
            ELSE IF resolved.module.subpath # <<>>
            THEN Join(EngineServerPath, resolved.module.subpath)
            ELSE EngineServerPath

----------------------------------------------------------------------------
(* Command line: shyp sync [--dry-run] (commands/sync.ts)                   *)

\* the ports fixed in the descriptors that load, by name
PinnedIn(configs) ==
    [n \in {configs[i].name : i \in 1..Len(configs)} |->
        (CHOOSE c \in {configs[i] : i \in 1..Len(configs)} : c.name = n).port]

\* allocatePort (server/index.ts 134-185) called by a process that is alone:
\* the port returned (NoPort: it threw) and the document it leaves
AllocatePort(doc, appName, range, pinned) ==
    IF appName \in DOMAIN doc.allocations
    THEN [port |-> doc.allocations[appName], doc |-> doc]
    ELSE LET end == RangeEnd(range)
             used == UsedPorts(doc, appName, pinned, TRUE)
             port == Probe(Cursor(doc, range), used, end)
         IN IF RangeExhausted(port, end)
            THEN [port |-> NoPort, doc |-> doc]
            ELSE [port |-> port, doc |-> Allocated(doc, appName, range, port)]

\* the engine modules of lines 63-64, as <<engine, module>> in loop order
RECURSIVE ModulesIn(_)
ModulesIn(engines) ==
    IF engines = <<>> THEN <<>>
    ELSE [i \in 1..Len(Head(engines).modules) |->
              [engine |-> Head(engines).name, name |-> Head(engines).modules[i].name,
               domain |-> Head(engines).modules[i].domain]]
         \o ModulesIn(Tail(engines))

InitSync ==
    /\ \/ cfiles = ConfigDir(FALSE, <<>>, <<>>)
       \/ \E a \in AppFiles("api"), w \in AppFiles("web"), e \in EngineFiles("wyrt") :
             cfiles = ConfigDir(TRUE, Directory(<<a, w>>), Directory(<<e>>))
    /\ \E reserved \in SUBSET {StandardStart + 1},
          engineManaged \in SUBSET {GamesStart},
          hasRanges \in BOOLEAN :
          portsFile = PortDocument(reserved, engineManaged, hasRanges)
    /\ appPorts = <<>>
    /\ configsReadable = TRUE
    /\ apc = <<>>
    /\ aname = <<>>
    /\ arange = <<>>
    /\ astate = <<>>
    /\ aseen = <<>>
    /\ acount = 0
    /\ alog = <<>>
    /\ cpc = "idle"
    /\ ccmd = [cmd |-> "none"]
    /\ cexit = -1
    /\ cerror = ""
    /\ cloaded = [made |-> FALSE]
    /\ sapps = <<>>
    /\ stodo = <<>>
    /\ nginxFiles = {}
    /\ resolved = [made |-> FALSE]

notSync == <<qvars, hvars, dvars, wvars, appPorts, configsReadable, apc, aname, arange,
             astate, aseen, acount, alog, cfiles, cloaded, resolved>>

\* actions.push(...)
ActionPushed == ccmd' = [ccmd EXCEPT !.actions = @ + 1]

\* lines 15-36: the command starts and loads the descriptors
SyncCommand(dryRun) ==
    /\ UNCHANGED notSync
    /\ cpc = "idle"
    /\ ccmd' = [cmd |-> "sync", dryRun |-> dryRun, actions |-> 0,
                portsBefore |-> portsFile]
    /\ IF ~cfiles.initialized
       THEN /\ Exits(1, "Shyp is not initialized")
            /\ UNCHANGED <<sapps, stodo>>
       ELSE /\ sapps' = LoadConfigs(cfiles.apps).configs
            /\ stodo' = [i \in 1..Len(sapps') |-> i]
            /\ cpc' = "ports"
            /\ UNCHANGED <<cexit, cerror>>
    /\ UNCHANGED <<portsFile, nginxFiles>>

\* lines 40-46, one turn of the loop: a descriptor without a port gets one
\* from allocatePort
SyncPort ==
    /\ UNCHANGED notSync
    /\ cpc = "ports"
    /\ stodo # <<>>
    /\ LET i == Head(stodo)
           got == AllocatePort(portsFile, sapps[i].name, "standard",
                               PinnedIn(LoadConfigs(cfiles.apps).configs))
       IN IF sapps[i].port # NoPort
          THEN /\ stodo' = Tail(stodo)
               /\ UNCHANGED <<portsFile, sapps, ccmd, cpc, cexit, cerror>>
          ELSE IF got.port = NoPort
          THEN /\ CommandRejects
               /\ UNCHANGED <<portsFile, sapps, ccmd, stodo>>
          ELSE /\ portsFile' = got.doc
               /\ sapps' = [sapps EXCEPT ![i].port = got.port]
               /\ ActionPushed
               /\ stodo' = Tail(stodo)
               /\ UNCHANGED <<cpc, cexit, cerror>>
    /\ UNCHANGED nginxFiles

\* line 46 to line 50: on to the loop over the applications with a domain
SyncPortsDone ==
    /\ UNCHANGED notSync
    /\ cpc = "ports"
    /\ stodo = <<>>
    /\ cpc' = "apps"
    /\ stodo' = [i \in 1..Len(sapps) |-> i]
    /\ UNCHANGED <<portsFile, nginxFiles, sapps, ccmd, cexit, cerror>>

\* lines 50-60, one turn: the proxy config of an application with a domain
\* is generated, and written and enabled unless the run is dry
SyncApp ==
    /\ UNCHANGED notSync
    /\ cpc = "apps"
    /\ stodo # <<>>
    /\ LET config == sapps[Head(stodo)]
       IN IF ~config.domain
          THEN UNCHANGED <<ccmd, nginxFiles>>
          ELSE /\ ActionPushed
               /\ nginxFiles' = IF ccmd.dryRun THEN nginxFiles
                                ELSE nginxFiles \cup {<<config.name>>}
    /\ stodo' = Tail(stodo)
    /\ UNCHANGED <<portsFile, sapps, cpc, cexit, cerror>>

\* line 60 to line 63: on to the loop over the engines' modules
SyncAppsDone ==
    /\ UNCHANGED notSync
    /\ cpc = "apps"
    /\ stodo = <<>>
    /\ cpc' = "modules"
    /\ stodo' = ModulesIn(LoadConfigs(cfiles.engines).configs)
    /\ UNCHANGED <<portsFile, nginxFiles, sapps, ccmd, cexit, cerror>>

\* lines 63-76, one turn: the same for a module with a domain
SyncModule ==
    /\ UNCHANGED notSync
    /\ cpc = "modules"
    /\ stodo # <<>>
    /\ LET module == Head(stodo)
       IN IF ~module.domain
          THEN UNCHANGED <<ccmd, nginxFiles>>
          ELSE /\ ActionPushed
               /\ nginxFiles' = IF ccmd.dryRun THEN nginxFiles
                                ELSE nginxFiles \cup {<<module.engine, module.name>>}
    /\ stodo' = Tail(stodo)
    /\ UNCHANGED <<portsFile, sapps, cpc, cexit, cerror>>

\* lines 78-94: nothing to do, or a dry run: the command returns
SyncReturns ==
    /\ UNCHANGED notSync
    /\ cpc = "modules"
    /\ stodo = <<>>
    /\ ccmd.actions = 0 \/ ccmd.dryRun
    /\ Exits(0, "")
    /\ UNCHANGED <<portsFile, nginxFiles, sapps, stodo, ccmd>>

\* lines 96-119: the proxy's config test and its reload
SyncReload ==
    /\ UNCHANGED notSync
    /\ cpc = "modules"
    /\ stodo = <<>>
    /\ ~(ccmd.actions = 0 \/ ccmd.dryRun)
    /\ \/ Exits(1, "Nginx configuration test failed")
       \/ CommandRejects
       \/ Exits(0, "")
    /\ UNCHANGED <<portsFile, nginxFiles, sapps, stodo, ccmd>>

NextSync ==
    \/ \E dryRun \in BOOLEAN : SyncCommand(dryRun)
    \/ SyncPort
    \/ SyncPortsDone
    \/ SyncApp
    \/ SyncAppsDone
    \/ SyncModule
    \/ SyncReturns
    \/ SyncReload

SyncInit == InitSync /\ InitQueue /\ IdleHistory /\ IdleDeploy /\ IdleWebhook

SpecSync == SyncInit /\ [][NextSync]_vars

\* C26: a sync run with --dry-run changes no persisted state: the port
\* document and the proxy configs stay as they were, also when an
\* application has no port yet.
C26_DryRunChangesNothing ==
    (ccmd.cmd = "sync" /\ ccmd.dryRun) =>
        /\ portsFile = ccmd.portsBefore
        /\ nginxFiles = {}

====
